---------------------------- MODULE Spec2Model ----------------------------
(***************************************************************************)
(* Verification model of the carousel prompt engine of api/prompt_generator *)
(* (topic classification, seeded design-template selection, per-slide      *)
(* purpose analysis, flow description, prompt composition).                *)
(*                                                                         *)
(* Python strings are TLA+ strings; TLC evaluates Len, SubSeq, Head, Tail  *)
(* and \o on them, so substring tests and character scans are computed as  *)
(* the code computes them.  An optional value (None or a value) is a tuple *)
(* of length 0 or 1.                                                       *)
(***************************************************************************)
EXTENDS Integers, Sequences, FiniteSets, TLC

(***************************************************************************)
(* Static tables of api/prompt_generator.py.  A Python dict is a function  *)
(* plus the sequence of its keys in insertion order.                       *)
(***************************************************************************)
DESIGN_TEMPLATE_KEYS ==
    << "cream_lifestyle", "soft_beige", "warm_ivory", "light_gray_minimal",
       "pastel_blush", "clean_white", "sand_neutral", "pearl_elegant" >>

DESIGN_TEMPLATES ==
    "cream_lifestyle" :> [flow_element |-> "A subtle warm-toned curved line or shadow",
        mood |-> "cozy, warm, and inviting",
        font_color |-> "#5D4E37"] @@
    "soft_beige" :> [flow_element |-> "A thin elegant dividing line",
        mood |-> "clean, modern, and professional",
        font_color |-> "#3D3D3D"] @@
    "warm_ivory" :> [flow_element |-> "Flowing illustration that extends across slides",
        mood |-> "elegant and aspirational",
        font_color |-> "#6B4423"] @@
    "light_gray_minimal" :> [flow_element |-> "A clean horizontal accent line",
        mood |-> "professional and trustworthy",
        font_color |-> "#2C3E50"] @@
    "pastel_blush" :> [flow_element |-> "A soft curved pastel ribbon",
        mood |-> "feminine, soft, and elegant",
        font_color |-> "#8B5A5A"] @@
    "clean_white" :> [flow_element |-> "A simple connecting line or shape",
        mood |-> "fresh, clean, and modern",
        font_color |-> "#333333"] @@
    "sand_neutral" :> [flow_element |-> "An organic curved shape or wave",
        mood |-> "grounded, natural, and authentic",
        font_color |-> "#4A3728"] @@
    "pearl_elegant" :> [flow_element |-> "A subtle gradient transition",
        mood |-> "luxurious and premium",
        font_color |-> "#2F2F2F"]

TOPIC_COLOR_PALETTE_KEYS ==
    << "business", "marketing", "technology", "health", "lifestyle", "education",
       "creative", "travel", "finance", "fashion", "food", "default" >>

TOPIC_COLOR_PALETTES ==
    "business" :> [font_color |-> "#1A365D",
        accent |-> "#0066FF",
        background |-> "#E8F4FD",
        background_alt |-> "#D0E8FF",
        accent_bg |-> "#B8DCFF",
        highlight |-> "#3399FF",
        light |-> "#F0F8FF",
        objects |-> "laptop, business charts, coffee cup, notebook, pen, smartphone, office desk, glass wall office, floating UI panels, minimal desk accessories, digital clock, leather chair, desk plant, sticky notes, tablet stand, wireless mouse, presentation screen, business documents, clipboard, file folders",
        creative_elements |-> "business infographics, statistics icons, growth charts, professional person in suit, abstract geometric shapes, subtle shadows, corporate illustration style, layered depth, soft reflections, modern gradients, isometric elements, corporate icons, workflow arrows, clean grid layout"] @@
    "marketing" :> [font_color |-> "#702459",
        accent |-> "#ED64A6",
        background |-> "#FFF0F5",
        background_alt |-> "#FFE4EC",
        accent_bg |-> "#FED7E2",
        highlight |-> "#F687B3",
        light |-> "#FFF5F7",
        objects |-> "phone with instagram, ring light, camera, pink laptop, content calendar, floating emojis, aesthetic props, neon frame, tripod, mic, story stickers, analytics dashboard, brand mood board, marketing funnel chart",
        creative_elements |-> "social media icons, heart icons, like buttons, influencer aesthetic, pink neon signs, gradient overlays, viral reel UI, sparkles, glow effects, motion arrows, floating reactions, swipe indicators, CTA buttons"] @@
    "technology" :> [font_color |-> "#2D1B69",
        accent |-> "#7C3AED",
        background |-> "#E8E0FF",
        background_alt |-> "#D4C4FF",
        accent_bg |-> "#C5B3FF",
        highlight |-> "#A855F7",
        light |-> "#F5F0FF",
        objects |-> "modern laptop, smartphone, tablet, headphones, smart devices, code on screen, holographic screen, glowing keyboard, server racks, VR headset, robotic arm, digital assistant orb, microchips, circuit boards",
        creative_elements |-> "circuit patterns, data visualization, tech icons, futuristic UI elements, neon lines, AI brain illustration, cyber grid, HUD overlays, sci-fi lighting, volumetric glow, matrix style code rain"] @@
    "health" :> [font_color |-> "#134E4A",
        accent |-> "#14B8A6",
        background |-> "#CCFBF1",
        background_alt |-> "#99F6E4",
        accent_bg |-> "#5EEAD4",
        highlight |-> "#2DD4BF",
        light |-> "#F0FDFA",
        objects |-> "yoga mat, water bottle, fresh fruits, plants, fitness equipment, smoothie, smart watch, resistance bands, dumbbells, foam roller, gym towel, protein shaker",
        creative_elements |-> "leaves, wellness icons, heart rate graphics, healthy food flat-lay, calm gradients, sunlight rays, zen symbols, breathing patterns, organic shapes, mindfulness icons"] @@
    "lifestyle" :> [font_color |-> "#78350F",
        accent |-> "#F59E0B",
        background |-> "#FEF3C7",
        background_alt |-> "#FDE68A",
        accent_bg |-> "#FCD34D",
        highlight |-> "#FBBF24",
        light |-> "#FFFBEB",
        objects |-> "planner, coffee, cozy blanket, candles, books, plants, aesthetic desk, ceramic mug, fairy lights, incense, journal, wooden tray, cushions, home decor items",
        creative_elements |-> "lifestyle flat-lay, cozy room aesthetic, morning routine items, self-care products, warm shadows, soft textures, lifestyle vignette, ambient lighting, neutral tones"] @@
    "education" :> [font_color |-> "#0C4A6E",
        accent |-> "#0EA5E9",
        background |-> "#E0F7FF",
        background_alt |-> "#B8ECFF",
        accent_bg |-> "#9BE0FF",
        highlight |-> "#38BDF8",
        light |-> "#F0FAFF",
        objects |-> "books, notebook, pencils, glasses, desk lamp, apple, graduation cap, sticky notes, digital tablet, chalk, ruler, school bag, whiteboard",
        creative_elements |-> "study desk setup, lightbulb ideas, brain icons, learning graphics, doodle arrows, chalkboard texture, mind maps, academic diagrams, educational symbols"] @@
    "creative" :> [font_color |-> "#701A75",
        accent |-> "#C026D3",
        background |-> "#F5D0FE",
        background_alt |-> "#E879F9",
        accent_bg |-> "#D946EF",
        highlight |-> "#E879F9",
        light |-> "#FDF4FF",
        objects |-> "camera, art supplies, sketchbook, color palette, iPad with stylus, paint tubes, creative props, scissors, brushes, markers, canvas board, glue tape",
        creative_elements |-> "paint splashes, creative tools, artistic workspace, colorful illustrations, abstract blobs, brush strokes, layered collage, surreal elements, mixed media textures"] @@
    "travel" :> [font_color |-> "#164E63",
        accent |-> "#06B6D4",
        background |-> "#CFFAFE",
        background_alt |-> "#A5F3FC",
        accent_bg |-> "#67E8F9",
        highlight |-> "#22D3EE",
        light |-> "#ECFEFF",
        objects |-> "passport, boarding pass, camera, suitcase, vintage map, sunglasses, airplane, travel stickers, compass, backpack, travel journal, map pins",
        creative_elements |-> "world map, destination pins, travel icons, adventure aesthetic, clouds, motion trails, paper cutouts, postcard style, travel doodles"] @@
    "finance" :> [font_color |-> "#064E3B",
        accent |-> "#10B981",
        background |-> "#D4FFED",
        background_alt |-> "#A7F3D0",
        accent_bg |-> "#6EE7B7",
        highlight |-> "#34D399",
        light |-> "#ECFDF5",
        objects |-> "calculator, coins, money graphics, financial charts, piggy bank, laptop with graphs, credit cards, wallet, receipt slips, budget notebook",
        creative_elements |-> "money icons, growth arrows, financial infographics, investment graphics, glowing bars, stock tickers, upward graphs, profit indicators"] @@
    "fashion" :> [font_color |-> "#831843",
        accent |-> "#EC4899",
        background |-> "#FCE7F3",
        background_alt |-> "#FBCFE8",
        accent_bg |-> "#F9A8D4",
        highlight |-> "#F472B6",
        light |-> "#FDF2F8",
        objects |-> "clothing rack, fashion accessories, sunglasses, handbag, stylish outfits, mirror, heels, perfume bottle, jewelry, fabric swatches",
        creative_elements |-> "fashion sketches, runway aesthetic, style icons, trendy flat-lay, editorial lighting, magazine layout, fashion grids"] @@
    "food" :> [font_color |-> "#7C2D12",
        accent |-> "#F97316",
        background |-> "#FFEDD5",
        background_alt |-> "#FDBA74",
        accent_bg |-> "#FB923C",
        highlight |-> "#FB923C",
        light |-> "#FFF7ED",
        objects |-> "beautiful food flat-lay, coffee, cooking ingredients, elegant plates, wooden table, herbs, napkin, cutlery, spices, sauce bowls",
        creative_elements |-> "food photography, recipe cards, kitchen aesthetic, chef icons, steam effects, rustic textures, overhead composition"] @@
    "default" :> [font_color |-> "#312E81",
        accent |-> "#6366F1",
        background |-> "#E0E7FF",
        background_alt |-> "#C7D2FE",
        accent_bg |-> "#A5B4FC",
        highlight |-> "#818CF8",
        light |-> "#EEF2FF",
        objects |-> "laptop, notebook, smartphone, coffee cup, modern desk items, ambient props, minimal decor, clean surfaces, neutral accessories",
        creative_elements |-> "clean minimalist aesthetic, professional workspace, modern design elements, soft gradients, depth layering, balanced composition"]

TOPIC_CATEGORY_ORDER ==
    << "business", "marketing", "technology", "health", "lifestyle", "education",
       "creative", "travel", "finance", "fashion", "food" >>

TOPIC_KEYWORDS ==
    "business" :> 
        << "business", "startup", "entrepreneur", "company", "finance", "money",
           "investment", "sales", "profit", "ceo", "success" >> @@
    "marketing" :> 
        << "marketing", "social media", "instagram", "content", "brand", "audience",
           "engagement", "viral", "followers", "influencer", "tiktok", "reels" >> @@
    "technology" :> 
        << "tech", "technology", "ai", "software", "app", "digital", "computer", "data",
           "automation", "code", "programming", "developer" >> @@
    "health" :> 
        << "health", "fitness", "wellness", "diet", "exercise", "mental", "meditation",
           "yoga", "nutrition", "workout", "gym" >> @@
    "lifestyle" :> 
        << "lifestyle", "life", "daily", "routine", "productivity", "habits", "morning",
           "self-care", "home" >> @@
    "education" :> 
        << "learn", "education", "course", "study", "teach", "training", "skill", "tips",
           "how to", "guide", "tutorial" >> @@
    "creative" :> 
        << "art", "design", "creative", "photography", "video", "music", "writing", "craft",
           "artist" >> @@
    "travel" :> 
        << "travel", "trip", "vacation", "adventure", "destination", "explore", "tourism",
           "journey" >> @@
    "finance" :> 
        << "finance", "investing", "stocks", "crypto", "wealth", "budget", "savings",
           "financial" >> @@
    "fashion" :> 
        << "fashion", "style", "outfit", "clothing", "beauty", "makeup", "skincare",
           "trends" >> @@
    "food" :> << "food", "recipe", "cooking", "chef", "restaurant", "baking", "cuisine", "meal" >>

SLIDE_PURPOSE_TYPES ==
    "data" :> [name |-> "Data/Statistics",
        visual_approach |-> "Charts, graphs, metrics with visual impact"] @@
    "process" :> [name |-> "Process/Flow",
        visual_approach |-> "Flowcharts, step diagrams, connected arrows"] @@
    "comparison" :> [name |-> "Comparison/Contrast",
        visual_approach |-> "Split visuals, comparison tables, side-by-side"] @@
    "concept" :> [name |-> "Concept/Definition",
        visual_approach |-> "Metaphorical illustrations, conceptual icons"] @@
    "timeline" :> [name |-> "Timeline/Sequence",
        visual_approach |-> "Timeline graphics, milestone markers, journey path"] @@
    "problem_solution" :> [name |-> "Problem/Solution",
        visual_approach |-> "Before/after visuals, problem icons, solution arrows"] @@
    "list" :> [name |-> "List/Itemization",
        visual_approach |-> "Icon grids, numbered graphics, checkbox visuals"] @@
    "quote" :> [name |-> "Quote/Testimonial",
        visual_approach |-> "Elegant typography frames, quote marks, portrait frames"] @@
    "cta" :> [name |-> "Call-to-Action",
        visual_approach |-> "Button graphics, directional arrows, action icons"]

VISUAL_OBJECTS_BY_PURPOSE ==
    "data" :> [objects |-> "bar chart, line graph, pie chart, metrics dashboard, upward arrow, percentage badge, growth indicator, data visualization panel",
        style |-> "clean data visualization, infographic style, bold numbers, highlighted metrics",
        icons |-> "trending up arrow, chart icon, statistics graph, metric counter, progress bar, analytics icon"] @@
    "process" :> [objects |-> "flowchart diagram, step arrows, numbered circles, process pipeline, gear mechanism, workflow nodes",
        style |-> "clean flowchart, numbered steps with connecting lines, process diagram aesthetic",
        icons |-> "connected arrows, step indicators, flow arrows, process wheels, sequential markers"] @@
    "comparison" :> [objects |-> "split screen layout, comparison table, versus badge, balance scale, side-by-side panels",
        style |-> "dual layout, clear separation, before/after effect, contrast zones",
        icons |-> "vs symbol, comparison arrows, check/x marks, rating stars, pro/con icons"] @@
    "concept" :> [objects |-> "lightbulb illustration, brain graphic, abstract shapes, conceptual diagram, thought bubble",
        style |-> "metaphorical illustration, abstract representation, conceptual visual",
        icons |-> "idea bulb, brain icon, puzzle pieces, concept cloud, abstract symbols"] @@
    "timeline" :> [objects |-> "horizontal timeline, milestone markers, date badges, journey path, roadmap illustration",
        style |-> "timeline graphic, chronological markers, journey visualization",
        icons |-> "calendar icon, clock, milestone flag, date marker, progress dots"] @@
    "problem_solution" :> [objects |-> "broken chain icon, warning symbol, checkmark solution, transformation arrow, before/after split",
        style |-> "problem illustration transitioning to solution, transformation visual",
        icons |-> "warning triangle, problem X, solution checkmark, fix wrench, healing cross"] @@
    "list" :> [objects |-> "numbered list graphic, icon grid, feature boxes, bullet point markers, checklist visual",
        style |-> "organized grid layout, numbered or bulleted visual list, icon collection",
        icons |-> "numbered badges, checkbox icons, bullet markers, list icons, feature stars"] @@
    "quote" :> [objects |-> "large quotation marks, elegant frame, portrait silhouette, speech bubble, testimonial card",
        style |-> "elegant typography frame, inspirational quote layout, testimonial card design",
        icons |-> "quote marks, speech icon, person silhouette, star rating, testimonial badge"] @@
    "cta" :> [objects |-> "call-to-action button, pointing arrow, follow icon, subscribe button, action badge",
        style |-> "prominent action visual, directional emphasis, invitation to act",
        icons |-> "arrow pointing right, click cursor, follow plus, subscribe bell, action hand"]

PURPOSE_ORDER ==
    << "data", "process", "comparison", "concept", "timeline", "problem_solution",
       "list", "quote", "cta" >>

KEYWORD_TO_PURPOSE ==
    "data" :> 
        << "percent", "percentage", "%", "growth", "increase", "decrease", "revenue",
           "sales", "metrics", "statistics", "numbers", "data", "rate", "ratio", "score",
           "results", "quarterly", "annually", "yoy", "mom", "kpi", "roi", "conversion",
           "profits" >> @@
    "process" :> 
        << "step", "steps", "process", "workflow", "how to", "guide", "method", "procedure",
           "framework", "system", "approach", "sequence", "phase", "stage", "pipeline" >> @@
    "comparison" :> 
        << "vs", "versus", "compare", "comparison", "difference", "between", "better",
           "worse", "pros", "cons", "advantages", "disadvantages", "option", "alternative" >> @@
    "concept" :> 
        << "what is", "definition", "meaning", "concept", "idea", "understand", "learn",
           "discover", "introduce", "about", "overview", "explained", "basics" >> @@
    "timeline" :> 
        << "timeline", "history", "evolution", "journey", "roadmap", "milestone", "future",
           "past", "present", "year", "quarter", "month", "when", "date", "period" >> @@
    "problem_solution" :> 
        << "problem", "challenge", "issue", "solution", "fix", "solve", "overcome",
           "struggle", "difficulty", "obstacle", "barrier", "pain point", "mistake" >> @@
    "list" :> 
        << "tip", "tips", "ways", "reasons", "things", "list", "top", "best", "must", "key",
           "essential", "important", "features", "benefits", "secrets", "hacks", "tricks" >> @@
    "quote" :> 
        << "quote", "said", "says", "according", "expert", "testimonial", "review",
           "feedback", "opinion", "believe", "philosophy", "wisdom", "inspiration",
           "motivational" >> @@
    "cta" :> 
        << "follow", "subscribe", "join", "sign up", "start", "get started", "try",
           "download", "click", "share", "comment", "save", "contact", "book", "call",
           "action", "now", "today" >>

stop_words ==
    {  "the", "a", "an", "and", "or", "but", "in", "on", "at", "to", "for", "of",
       "with", "by", "from", "up", "about", "into", "through", "during", "is", "are",
       "was", "were", "be", "been", "being", "have", "has", "had", "do", "does", "did",
       "will", "would", "could", "should", "may", "might", "must", "can", "this",
       "that", "these", "those", "it", "its", "your", "you", "we", "they", "our",
       "their", "how", "why", "what", "when", "where", "which", "who", "whom", "whose",
       "not", "no", "yes", "all", "each", "every", "most", "more", "some", "any",
       "make", "get", "just", "also", "than" }

(***************************************************************************)
(* Python values and string primitives.                                    *)
(***************************************************************************)
None == << >>

Some(v) == << v >>

\* Python truthiness of an optional string: neither None nor "".
truthy(opt) == opt # None /\ opt[1] # ""

UPPER == "ABCDEFGHIJKLMNOPQRSTUVWXYZ"

LOWER == "abcdefghijklmnopqrstuvwxyz"

DIGITS == "0123456789"

\* ord() of the punctuation that occurs in the texts considered.
PUNCTUATION ==
    (" " :> 32) @@ ("!" :> 33) @@ ("%" :> 37) @@ ("," :> 44) @@ ("-" :> 45) @@
    ("." :> 46) @@ ("?" :> 63) @@ ("_" :> 95)

CharAt(s, i) == SubSeq(s, i, i)

Chars(s) == { CharAt(s, i) : i \in 1..Len(s) }

UPPER_CHARS == Chars(UPPER)

LOWER_CHARS == Chars(LOWER)

DIGIT_CHARS == Chars(DIGITS)

IndexOf(c, s) == CHOOSE i \in 1..Len(s) : CharAt(s, i) = c

\* ord(c) of an ASCII letter, digit or punctuation character.
ord(c) ==
    IF c \in DIGIT_CHARS THEN 47 + IndexOf(c, DIGITS)
    ELSE IF c \in UPPER_CHARS THEN 64 + IndexOf(c, UPPER)
    ELSE IF c \in LOWER_CHARS THEN 96 + IndexOf(c, LOWER)
    ELSE PUNCTUATION[c]

\* str.lower() of one character.
lower_char(c) ==
    IF c \in UPPER_CHARS THEN CharAt(LOWER, IndexOf(c, UPPER)) ELSE c

RECURSIVE lower(_)
\* str.lower()
lower(s) == IF s = "" THEN "" ELSE lower_char(Head(s)) \o lower(Tail(s))

\* str.upper() of one character.
upper_char(c) ==
    IF c \in LOWER_CHARS THEN CharAt(UPPER, IndexOf(c, LOWER)) ELSE c

RECURSIVE upper(_)
\* str.upper()
upper(s) == IF s = "" THEN "" ELSE upper_char(Head(s)) \o upper(Tail(s))

\* Python's  word in text  for strings: substring containment.
contains(word, text) ==
    \E i \in 1..(Len(text) - Len(word) + 1) :
        SubSeq(text, i, i + Len(word) - 1) = word

RECURSIVE str(_)
\* str(n) of a non-negative integer.
str(n) ==
    IF n < 10 THEN CharAt(DIGITS, n + 1)
    ELSE str(n \div 10) \o CharAt(DIGITS, (n % 10) + 1)

\* Python's  x in list.
in_list(x, list) == \E i \in 1..Len(list) : list[i] = x

\* The k-th smallest element of a set of integers.
kth(S, k) == CHOOSE x \in S : Cardinality({ y \in S : y < x }) = k - 1

\* str.strip() of a text whose only white space is the space character.
strip(s) ==
    IF \A i \in 1..Len(s) : CharAt(s, i) = " " THEN ""
    ELSE SubSeq(s,
                CHOOSE i \in 1..Len(s) :
                    /\ CharAt(s, i) # " "
                    /\ \A j \in 1..(i - 1) : CharAt(s, j) = " ",
                CHOOSE i \in 1..Len(s) :
                    /\ CharAt(s, i) # " "
                    /\ \A j \in (i + 1)..Len(s) : CharAt(s, j) = " ")

(***************************************************************************)
(* Colour conversions.  A call either returns a value or raises an         *)
(* exception; a Python number is modelled as a fraction                    *)
(* << numerator, denominator >> with a positive denominator.               *)
(***************************************************************************)
Returns(returned) == << "return", returned >>

Raises(exception) == << "raise", exception >>

raised(result) == result[1] = "raise"

HEX_LETTERS == "abcdef"

HEX_LETTER_CHARS == Chars(HEX_LETTERS)

is_hex_digit(c) == c \in DIGIT_CHARS \/ lower_char(c) \in HEX_LETTER_CHARS

hex_digit_value(c) ==
    IF c \in DIGIT_CHARS THEN IndexOf(c, DIGITS) - 1
    ELSE 9 + IndexOf(lower_char(c), HEX_LETTERS)

RECURSIVE hex_digits_value(_, _)
\* The value of a run of hexadecimal digits and underscores.
hex_digits_value(s, acc) ==
    IF s = "" THEN acc
    ELSE hex_digits_value(Tail(s),
             IF Head(s) = "_" THEN acc ELSE acc * 16 + hex_digit_value(Head(s)))

\* int(s, 16): white space around the literal is dropped, then come an
\* optional sign, an optional 0x prefix and hexadecimal digits, where single
\* underscores may stand between digits and after the prefix.
int_base16(s) ==
    LET signed(literal) == literal # "" /\ Head(literal) \in { "+", "-" }
        prefixed(unsigned) ==
            Len(unsigned) >= 2 /\ lower(SubSeq(unsigned, 1, 2)) = "0x"
        after_prefix(unsigned) ==
            IF prefixed(unsigned) THEN SubSeq(unsigned, 3, Len(unsigned))
            ELSE unsigned
        digits(unsigned, rest) ==
            IF prefixed(unsigned) /\ rest # "" /\ Head(rest) = "_"
            THEN Tail(rest) ELSE rest
        well_formed(run) ==
            /\ run # ""
            /\ \A i \in 1..Len(run) :
                   \/ is_hex_digit(CharAt(run, i))
                   \/ /\ CharAt(run, i) = "_"
                      /\ 1 < i /\ i < Len(run)
                      /\ CharAt(run, i - 1) # "_"
        negated(literal, magnitude) ==
            IF signed(literal) /\ Head(literal) = "-" THEN 0 - magnitude
            ELSE magnitude
        converted(literal, run) ==
            IF ~ well_formed(run) THEN Raises("ValueError")
            ELSE Returns(negated(literal, hex_digits_value(run, 0)))
        without_sign(literal, unsigned) ==
            converted(literal, digits(unsigned, after_prefix(unsigned)))
        parsed(literal) ==
            without_sign(literal,
                         IF signed(literal) THEN Tail(literal) ELSE literal)
    IN  parsed(strip(s))

RECURSIVE lstrip(_, _)
\* str.lstrip(c): every leading c is dropped.
lstrip(s, c) == IF s # "" /\ Head(s) = c THEN lstrip(Tail(s), c) ELSE s

\* The slice s[a:b] for 0 <= a <= b: it ends where the string ends.
slice(s, a, b) ==
    IF a >= Len(s) THEN ""
    ELSE SubSeq(s, a + 1, IF b < Len(s) THEN b ELSE Len(s))

\* hex_to_rgb(hex_color): the three conversions are made in order; the
\* first that fails ends the call.
hex_to_rgb(hex_color) ==
    LET channels(r, g, b) ==
            IF raised(r) THEN r
            ELSE IF raised(g) THEN g
            ELSE IF raised(b) THEN b
            ELSE Returns(<< r[2], g[2], b[2] >>)
        of_digits(stripped) ==
            channels(int_base16(slice(stripped, 0, 2)),
                     int_base16(slice(stripped, 2, 4)),
                     int_base16(slice(stripped, 4, 6)))
    IN  of_digits(lstrip(hex_color, "#"))

\* int(x) of a number: the fraction truncated toward zero.
int(x) ==
    IF x[1] >= 0 THEN x[1] \div x[2] ELSE 0 - ((0 - x[1]) \div x[2])

RECURSIVE hex(_)
\* The lower-case hexadecimal digits of a non-negative integer.
hex(n) ==
    LET digit == IF n % 16 < 10 THEN CharAt(DIGITS, (n % 16) + 1)
                 ELSE CharAt(HEX_LETTERS, (n % 16) - 9)
    IN  IF n < 16 THEN digit ELSE hex(n \div 16) \o digit

\* '{:02x}'.format(n): sign and digits, padded with zeros to two characters.
format_02x(n) ==
    IF n < 0 THEN "-" \o hex(0 - n)
    ELSE IF n < 16 THEN "0" \o hex(n)
    ELSE hex(n)

\* An rgb_to_hex that formats with {:x}, without padding.
rgb_to_hex_unpadded(rgb) ==
    LET format_x(n) == IF n < 0 THEN "-" \o hex(0 - n) ELSE hex(n)
    IN  "#" \o format_x(int(rgb[1])) \o format_x(int(rgb[2]))
            \o format_x(int(rgb[3]))

\* rgb_to_hex(rgb)
rgb_to_hex(rgb) ==
    "#" \o format_02x(int(rgb[1])) \o format_02x(int(rgb[2]))
        \o format_02x(int(rgb[3]))

(***************************************************************************)
(* colorsys.rgb_to_hls and colorsys.hls_to_rgb, the library functions the   *)
(* derived colours are computed with.  Their floating-point numbers are    *)
(* modelled in fixed point, as multiples of 1/SCALE; a quotient is         *)
(* truncated toward zero, so that x + (-x) = 0 is kept.  A derived colour  *)
(* can therefore differ from the program's in the last unit of a           *)
(* component; which calls fail, and with which exception, is kept.         *)
(***************************************************************************)
SCALE == 10000

\* a / b
fixed_div(a, b) ==
    IF b < 0 THEN int(<< 0 - a * SCALE, 0 - b >>) ELSE int(<< a * SCALE, b >>)

\* a * b
fixed_mul(a, b) == int(<< a * b, SCALE >>)

max3(a, b, c) == IF a >= b /\ a >= c THEN a ELSE IF b >= c THEN b ELSE c

min3(a, b, c) == IF a <= b /\ a <= c THEN a ELSE IF b <= c THEN b ELSE c

\* colorsys.rgb_to_hls(r, g, b)
rgb_to_hls(r, g, b) ==
    LET maxc == max3(r, g, b)
        minc == min3(r, g, b)
        sumc == maxc + minc
        rangec == maxc - minc
        l == int(<< sumc, 2 >>)
        divisor == IF 2 * l <= SCALE THEN sumc ELSE 2 * SCALE - maxc - minc
        s == fixed_div(rangec, divisor)
        rc == fixed_div(maxc - r, rangec)
        gc == fixed_div(maxc - g, rangec)
        bc == fixed_div(maxc - b, rangec)
        h == IF r = maxc THEN bc - gc
             ELSE IF g = maxc THEN 2 * SCALE + rc - bc
             ELSE 4 * SCALE + gc - rc
    IN  IF minc = maxc THEN Returns(<< 0, l, 0 >>)
        ELSE IF divisor = 0 THEN Raises("ZeroDivisionError")
        ELSE Returns(<< int(<< h, 6 >>) % SCALE, l, s >>)

\* colorsys._v(m1, m2, hue)
v(m1, m2, hue) ==
    LET turn == hue % SCALE
    IN  IF 6 * turn < SCALE THEN m1 + int(<< (m2 - m1) * turn * 6, SCALE >>)
        ELSE IF 2 * turn < SCALE THEN m2
        ELSE IF 3 * turn < 2 * SCALE
        THEN m1 + int(<< (m2 - m1) * (int(<< 2 * SCALE, 3 >>) - turn) * 6, SCALE >>)
        ELSE m1

\* colorsys.hls_to_rgb(h, l, s)
hls_to_rgb(h, l, s) ==
    LET m2 == IF 2 * l <= SCALE THEN fixed_mul(l, SCALE + s)
              ELSE l + s - fixed_mul(l, s)
        m1 == 2 * l - m2
        ONE_THIRD == int(<< SCALE, 3 >>)
    IN  IF s = 0 THEN << l, l, l >>
        ELSE << v(m1, m2, h + ONE_THIRD), v(m1, m2, h), v(m1, m2, h - ONE_THIRD) >>

\* The default of generate_pastel_variant's lightness_boost, 0.25.
DEFAULT_LIGHTNESS_BOOST == int(<< SCALE, 4 >>)

\* A generate_pastel_variant whose except clause returns the other
\* function's constant.
generate_pastel_variant_other_fallback(hex_color, lightness_boost) ==
    LET lighter(l) ==
            IF l + lightness_boost < SCALE THEN l + lightness_boost ELSE SCALE
        paler(reduced) ==
            IF reduced > int(<< SCALE * 3, 10 >>) THEN reduced
            ELSE int(<< SCALE * 3, 10 >>)
        hex_of(out) ==
            rgb_to_hex(<< << out[1] * 255, SCALE >>, << out[2] * 255, SCALE >>,
                          << out[3] * 255, SCALE >> >>)
        of_hls(hls) ==
            IF raised(hls) THEN "#A29BFE"
            ELSE hex_of(hls_to_rgb(hls[2][1], lighter(hls[2][2]),
                                   paler(int(<< hls[2][3] * 6, 10 >>))))
        of_rgb(rgb) ==
            IF raised(rgb) THEN "#A29BFE"
            ELSE of_hls(rgb_to_hls(fixed_div(rgb[2][1], 255),
                                   fixed_div(rgb[2][2], 255),
                                   fixed_div(rgb[2][3], 255)))
    IN  of_rgb(hex_to_rgb(hex_color))

\* generate_pastel_variant(hex_color, lightness_boost): whatever is raised
\* inside the try block is caught.
generate_pastel_variant(hex_color, lightness_boost) ==
    LET lighter(l) ==
            IF l + lightness_boost < SCALE THEN l + lightness_boost ELSE SCALE
        paler(reduced) ==
            IF reduced > int(<< SCALE * 3, 10 >>) THEN reduced
            ELSE int(<< SCALE * 3, 10 >>)
        hex_of(out) ==
            rgb_to_hex(<< << out[1] * 255, SCALE >>, << out[2] * 255, SCALE >>,
                          << out[3] * 255, SCALE >> >>)
        of_hls(hls) ==
            IF raised(hls) THEN "#FFE4EC"
            ELSE hex_of(hls_to_rgb(hls[2][1], lighter(hls[2][2]),
                                   paler(int(<< hls[2][3] * 6, 10 >>))))
        of_rgb(rgb) ==
            IF raised(rgb) THEN "#FFE4EC"
            ELSE of_hls(rgb_to_hls(fixed_div(rgb[2][1], 255),
                                   fixed_div(rgb[2][2], 255),
                                   fixed_div(rgb[2][3], 255)))
    IN  of_rgb(hex_to_rgb(hex_color))

\* generate_complementary_color(hex_color)
generate_complementary_color(hex_color) ==
    LET hex_of(out) ==
            rgb_to_hex(<< << out[1] * 255, SCALE >>, << out[2] * 255, SCALE >>,
                          << out[3] * 255, SCALE >> >>)
        of_hls(hls) ==
            IF raised(hls) THEN "#A29BFE"
            ELSE hex_of(hls_to_rgb((hls[2][1] + int(<< SCALE, 2 >>)) % SCALE,
                                   hls[2][2], hls[2][3]))
        of_rgb(rgb) ==
            IF raised(rgb) THEN "#A29BFE"
            ELSE of_hls(rgb_to_hls(fixed_div(rgb[2][1], 255),
                                   fixed_div(rgb[2][2], 255),
                                   fixed_div(rgb[2][3], 255)))
    IN  of_rgb(hex_to_rgb(hex_color))

(***************************************************************************)
(* The process-wide pseudo-random generator of Python's random module      *)
(* (one hidden instance shared by every caller of random.seed and          *)
(* random.choice) and the md5 digest.  Both are library code; what the     *)
(* program relies on is kept: the generator is a deterministic state       *)
(* machine whose state is replaced by seed() and advanced by every draw,   *)
(* choice() draws bit_length(n) bits and rejects values >= n, and the      *)
(* digest is a fixed function of the bytes of its input.  The 19937-bit    *)
(* Mersenne Twister state is modelled by a 16-bit full-period linear       *)
(* congruential state, the 32-bit digest prefix by a 16-bit polynomial     *)
(* hash.                                                                   *)
(***************************************************************************)
RECURSIVE md5_fold(_, _)
md5_fold(s, h) ==
    IF s = "" THEN h ELSE md5_fold(Tail(s), (h * 31 + ord(Head(s))) % 65536)

\* int(hashlib.md5(s.encode()).hexdigest()[:8], 16)
md5_prefix(s) == md5_fold(s, 7)

\* One step of the generator: the next state, which is also the output word.
genrand(state) == (state * 25173 + 13849) % 65536

\* random.seed(a): the state is a function of a alone.
random_seed(a) == genrand(a % 65536)

RECURSIVE bit_length(_)
bit_length(n) == IF n = 0 THEN 0 ELSE 1 + bit_length(n \div 2)

\* getrandbits(k) of an output word: its top k bits.
getrandbits(word, k) == word \div (2 ^ (16 - k))

RECURSIVE randbelow(_, _)
\* Random._randbelow(n): draw bit_length(n) bits until the value is below n.
\* Returns the generator state reached and the value drawn.
randbelow(state, n) ==
    LET next == genrand(state)
        value == getrandbits(next, bit_length(n))
    IN  IF value < n THEN [state |-> next, value |-> value]
        ELSE randbelow(next, n)

\* random.choice(seq) on generator state `state`.
random_choice(state, seq) ==
    LET r == randbelow(state, Len(seq))
    IN  [state |-> r.state, value |-> seq[r.value + 1]]

\* random.randint(a, b) on generator state `state`.
random_randint(state, a, b) ==
    LET r == randbelow(state, b - a + 1)
    IN  [state |-> r.state, value |-> a + r.value]

(***************************************************************************)
(* Seed and design-template selection.                                     *)
(***************************************************************************)
\* generate_carousel_flow_seed(project_id, topic); project_id is an integer.
generate_carousel_flow_seed(project_id, topic) ==
    md5_prefix(str(project_id) \o "-" \o topic)

style_preferences ==
    "modern" :> << "light_gray_minimal", "clean_white", "soft_beige" >> @@
    "minimal" :> << "clean_white", "soft_beige", "pearl_elegant" >> @@
    "playful" :> << "pastel_blush", "cream_lifestyle", "warm_ivory" >> @@
    "professional" :> << "light_gray_minimal", "soft_beige", "pearl_elegant" >> @@
    "creative" :> << "warm_ivory", "cream_lifestyle", "pastel_blush" >> @@
    "elegant" :> << "pearl_elegant", "warm_ivory", "cream_lifestyle" >>

\* The list select_design_template draws from: the hint's preferred templates
\* that exist, when the hint names a style and that list is not empty;
\* otherwise every template.
template_candidates(style_hint) ==
    LET templates == DESIGN_TEMPLATE_KEYS
    IN  IF truthy(style_hint) /\ lower(style_hint[1]) \in DOMAIN style_preferences
        THEN LET preferred == style_preferences[lower(style_hint[1])]
                 valid_preferred ==
                     SelectSeq(preferred, LAMBDA t : in_list(t, templates))
             IN  IF valid_preferred # << >> THEN valid_preferred ELSE templates
        ELSE templates

\* A selection that never seeds the generator.
seed_step_skipped(state, seed) == state

\* if seed is not None: random.seed(seed)
seed_step(state, seed) ==
    IF seed # None THEN random_seed(seed[1]) ELSE state

\* A selection that draws from the generator as it finds it.
select_design_template_unseeded(state, seed, style_hint) ==
    random_choice(state, template_candidates(style_hint))

\* select_design_template(seed, style_hint) run without interruption on
\* generator state `state`: the generator state it leaves and the key returned.
select_design_template(state, seed, style_hint) ==
    random_choice(seed_step(state, seed), template_candidates(style_hint))

(***************************************************************************)
(* Layer 1: topic classification and palette.                              *)
(***************************************************************************)
\* sum(1 for word in words if word in text)
keyword_score(words, text) ==
    Cardinality({ i \in 1..Len(words) : contains(words[i], text) })

RECURSIVE max_scan(_, _, _)
\* The scan of max(): a later entry replaces the best one only when its
\* score is strictly greater.
max_scan(entries, i, best) ==
    IF i > Len(entries) THEN best
    ELSE IF entries[i].score > best.score
         THEN max_scan(entries, i + 1, entries[i])
         ELSE max_scan(entries, i + 1, best)

\* A choice of the first entry, whatever the scores.
max_by_score_first(entries) == entries[1].key

\* max(scores, key=scores.get) over a non-empty dict given as its entries in
\* insertion order.
max_by_score(entries) == max_scan(entries, 2, entries[1]).key

\* A dict with an entry for every key, also for a score of zero.
all_scores(order, table, text) ==
    SubSeq([ i \in 1..Len(order) |->
               [score |-> keyword_score(table[order[i]], text), key |-> order[i]] ],
           1, Len(order))

\* The dict built by the scoring loop: an entry for each key of `order` whose
\* keyword list has a positive score, in that order.
positive_scores(order, table, text) ==
    SelectSeq([ i \in 1..Len(order) |->
                  [score |-> keyword_score(table[order[i]], text), key |-> order[i]] ],
              LAMBDA entry : entry.score > 0)

get_topic_category(topic) ==
    LET topic_lower == lower(topic)
        category_scores ==
            positive_scores(TOPIC_CATEGORY_ORDER, TOPIC_KEYWORDS, topic_lower)
    IN  IF category_scores # << >> THEN max_by_score(category_scores)
        ELSE "default"

\* dict.get(key, default)
dict_get(dict, key, default) ==
    IF key \in DOMAIN dict THEN dict[key] ELSE default

\* The palette get_topic_color_palette builds: accent and pastel from the
\* first brand colour, secondary from the second.
with_brand_colors(base_palette, brand_colors) ==
    LET second(built) ==
            IF Len(brand_colors) > 1
            THEN ("secondary" :> brand_colors[2]) @@ built
            ELSE built
    IN  second(("pastel" :> generate_pastel_variant(brand_colors[1],
                                                    DEFAULT_LIGHTNESS_BOOST))
                   @@ [base_palette EXCEPT !.accent = brand_colors[1]])

\* A get_topic_color_palette that works on the table's palette, not on a
\* copy of it.
get_topic_color_palette_in_place(table, topic, brand_colors) ==
    LET changed(key, built) ==
            [palettes |-> [table EXCEPT ![key] = built],
             palette |-> built]
        found(key) ==
            IF Len(brand_colors) > 0
            THEN changed(key, with_brand_colors(table[key], brand_colors))
            ELSE [palettes |-> table, palette |-> table[key]]
        looked_up(category) ==
            found(IF category \in DOMAIN table THEN category ELSE "default")
    IN  looked_up(get_topic_category(topic))

\* get_topic_color_palette(topic, brand_colors) on the table
\* TOPIC_COLOR_PALETTES as it is when the call is made; brand_colors is a
\* list of strings, None and the empty list being << >>.  Returns the
\* palette and the table as the call leaves it: base_palette is a copy, so
\* the assignments to its entries do not reach the table.
get_topic_color_palette(table, topic, brand_colors) ==
    LET branded(base_palette) ==
            IF Len(brand_colors) > 0
            THEN with_brand_colors(base_palette, brand_colors)
            ELSE base_palette
    IN  [palettes |-> table,
         palette |->
             branded(dict_get(table, get_topic_category(topic),
                              table["default"]))]

(***************************************************************************)
(* Layer 2: per-slide analysis.                                            *)
(***************************************************************************)
\* An analysis that reads the title only.
analyze_title_only(title, description) ==
    LET text == lower(title)
        purpose_scores ==
            positive_scores(PURPOSE_ORDER, KEYWORD_TO_PURPOSE, text)
    IN  IF purpose_scores # << >> THEN max_by_score(purpose_scores)
        ELSE "concept"

analyze_slide_purpose(title, description) ==
    LET text == lower(title \o " " \o description)
        purpose_scores ==
            positive_scores(PURPOSE_ORDER, KEYWORD_TO_PURPOSE, text)
    IN  IF purpose_scores # << >> THEN max_by_score(purpose_scores)
        ELSE "concept"

is_letter(c) == c \in LOWER_CHARS \/ c \in UPPER_CHARS

\* \w of the regular expression: a letter, a digit or the underscore.
is_word_char(c) == is_letter(c) \/ c \in DIGIT_CHARS \/ c = "_"

\* re.findall(r'\b[a-zA-Z]{3,}\b', text): a match starts where a run of word
\* characters starts, takes letters greedily, and must end where the run
\* ends; so the matches are the runs of word characters that are made of
\* three or more letters only, from left to right.
findall_words(text) ==
    LET word == { i \in 1..Len(text) : is_word_char(CharAt(text, i)) }
        starts == { i \in word : (i - 1) \notin word }
        ends == { i \in word : (i + 1) \notin word }
        runs == [ k \in 1..Cardinality(starts) |->
                    SubSeq(text, kth(starts, k), kth(ends, k)) ]
    IN  SelectSeq(runs,
            LAMBDA w : /\ Len(w) >= 3
                       /\ \A m \in 1..Len(w) : is_letter(CharAt(w, m)))

RECURSIVE keyword_loop(_, _, _, _, _)
\* The loop over words: append an unseen word that is no stop word, and
\* break as soon as the list has max_keywords entries or more.
keyword_loop(words, i, keywords, seen, max_keywords) ==
    IF i > Len(words) THEN keywords
    ELSE IF words[i] \notin stop_words /\ words[i] \notin seen
         THEN LET appended == Append(keywords, words[i])
              IN  IF Len(appended) >= max_keywords THEN appended
                  ELSE keyword_loop(words, i + 1, appended,
                                    seen \cup { words[i] }, max_keywords)
         ELSE keyword_loop(words, i + 1, keywords, seen, max_keywords)

extract_slide_keywords(title, description, max_keywords) ==
    LET text == title \o " " \o description
        words == findall_words(lower(text))
    IN  keyword_loop(words, 1, << >>, {}, max_keywords)

get_purpose_specific_visuals(purpose, keywords, global_category) ==
    LET purpose_visuals ==
            dict_get(VISUAL_OBJECTS_BY_PURPOSE, purpose,
                     VISUAL_OBJECTS_BY_PURPOSE["concept"])
        purpose_info ==
            dict_get(SLIDE_PURPOSE_TYPES, purpose, SLIDE_PURPOSE_TYPES["concept"])
    IN  [objects |-> purpose_visuals.objects,
         visual_approach |-> purpose_info.visual_approach,
         style |-> purpose_visuals.style,
         icons |-> purpose_visuals.icons,
         keywords |-> keywords,
         purpose_name |-> purpose_info.name]

\* An override of the first slide only.
position_override_first_only(purpose, slide_number, total_slides) ==
    IF slide_number = 1
    THEN IF purpose \notin { "data", "timeline" } THEN "concept" ELSE purpose
    ELSE purpose

\* An override that makes every first slide 'concept'.
position_override_always_concept(purpose, slide_number, total_slides) ==
    IF slide_number = 1 THEN "concept"
    ELSE IF slide_number = total_slides THEN "cta"
    ELSE purpose

\* The position-based override of the detected purpose.
position_override(purpose, slide_number, total_slides) ==
    IF slide_number = 1
    THEN IF purpose \notin { "data", "timeline" } THEN "concept" ELSE purpose
    ELSE IF slide_number = total_slides THEN "cta"
    ELSE purpose

get_slide_visual_context(title, description, slide_number, total_slides, global_topic) ==
    LET keywords == extract_slide_keywords(title, description, 5)
        purpose ==
            position_override(analyze_slide_purpose(title, description),
                              slide_number, total_slides)
        global_category == get_topic_category(global_topic)
        visuals == get_purpose_specific_visuals(purpose, keywords, global_category)
    IN  [objects |-> visuals.objects,
         visual_approach |-> visuals.visual_approach,
         style |-> visuals.style,
         icons |-> visuals.icons,
         keywords |-> visuals.keywords,
         global_category |-> global_category,
         purpose_name |-> visuals.purpose_name,
         slide_number |-> slide_number,
         total_slides |-> total_slides,
         detected_purpose |-> purpose]

(***************************************************************************)
(* Flow description.  The returned text is the sequence of its lines.      *)
(***************************************************************************)
\* A chain that tests for the last slide first.
flow_position_last_first(slide_number, total_slides) ==
    IF slide_number = total_slides THEN "CLOSING"
    ELSE IF slide_number = 1 THEN "OPENING"
    ELSE "MIDDLE"

\* The branch of the if / elif / else chain.
flow_position(slide_number, total_slides) ==
    IF slide_number = 1 THEN "OPENING"
    ELSE IF slide_number = total_slides THEN "CLOSING"
    ELSE "MIDDLE"

get_slide_flow_description(slide_number, total_slides, flow_element) ==
    IF flow_position(slide_number, total_slides) = "OPENING"
    THEN << "",
            "VISUAL FLOW POSITION: OPENING SLIDE (1 of " \o str(total_slides) \o ")",
            "- " \o flow_element \o " ORIGINATES from the LEFT edge of the composition",
            "- The element should flow gracefully toward the RIGHT edge",
            "- Create a sense of beginning - the visual journey starts here",
            "- Element should EXIT toward the right edge, inviting viewers to swipe",
            "- Include a subtle \"swipe\" visual cue in bottom area" >>
    ELSE IF flow_position(slide_number, total_slides) = "CLOSING"
    THEN << "",
            "VISUAL FLOW POSITION: CLOSING SLIDE (" \o str(slide_number) \o " of "
                \o str(total_slides) \o ")",
            "- " \o flow_element \o " ENTERS from the LEFT edge (continuing from previous slide)",
            "- The element should CONCLUDE gracefully in the center or right area",
            "- Create a sense of completion and resolution",
            "- Include visual space for a call-to-action message",
            "- Design should feel like a satisfying ending to the visual journey" >>
    ELSE << "",
            "VISUAL FLOW POSITION: MIDDLE SLIDE (" \o str(slide_number) \o " of "
                \o str(total_slides) \o ")",
            "- " \o flow_element \o " ENTERS from the LEFT edge (continuing from previous slide)",
            "- The element should flow ACROSS the composition",
            "- Element EXITS toward the RIGHT edge (continuing to next slide)",
            "- Maintain visual rhythm and momentum",
            "- Keep the flowing element at roughly the same vertical position for continuity" >>

(***************************************************************************)
(* Prompt composition.                                                     *)
(***************************************************************************)
\* str.split(','): the pieces between consecutive commas.
split_commas(s) ==
    LET between(cuts) ==
            [ k \in 1..(Len(cuts) - 1) |->
                  SubSeq(s, cuts[k] + 1, cuts[k + 1] - 1) ]
    IN  between(<< 0 >>
                \o SelectSeq([ i \in 1..Len(s) |-> i ],
                             LAMBDA i : CharAt(s, i) = ",")
                \o << Len(s) + 1 >>)

\* [x.strip() for x in s.split(',')]
split_and_strip(s) ==
    LET pieces == split_commas(s)
    IN  SubSeq([ k \in 1..Len(pieces) |-> strip(pieces[k]) ], 1, Len(pieces))

RECURSIVE join(_, _)
\* sep.join(list)
join(sep, list) ==
    IF list = << >> THEN ""
    ELSE IF Len(list) = 1 THEN list[1]
    ELSE list[1] \o sep \o join(sep, Tail(list))

RECURSIVE select_objects(_, _, _, _)
\* for i in range(3): append all_objects[(object_index + i) % len] unless it
\* is already selected.
select_objects(all_objects, object_index, i, selected_objects) ==
    IF i = 3 THEN selected_objects
    ELSE LET candidate == all_objects[((object_index + i) % Len(all_objects)) + 1]
         IN  select_objects(all_objects, object_index, i + 1,
                 IF in_list(candidate, selected_objects) THEN selected_objects
                 ELSE Append(selected_objects, candidate))

\* A Layer 1 instruction that starts the rotation at slide_number.
layer1_instruction_from_slide_number(color_palette, topic_category, topic, slide_number) ==
    LET instruction(all_objects, all_creative) ==
            [topic |-> topic,
             topic_category |-> topic_category,
             layer |-> 1,
             selected_objects_str |->
                 join(", ",
                      SubSeq(select_objects(all_objects,
                                            slide_number % Len(all_objects), 0, << >>),
                             1, 3)),
             selected_creative |->
                 all_creative[((slide_number - 1) % Len(all_creative)) + 1]]
    IN  instruction(split_and_strip(color_palette.objects),
                    split_and_strip(color_palette.creative_elements))

\* The Layer 1 objects instruction: its interpolated values.
layer1_instruction(color_palette, topic_category, topic, slide_number) ==
    LET instruction(all_objects, all_creative) ==
            [topic |-> topic,
             topic_category |-> topic_category,
             layer |-> 1,
             selected_objects_str |->
                 join(", ",
                      SubSeq(select_objects(all_objects,
                                            (slide_number - 1) % Len(all_objects), 0, << >>),
                             1, 3)),
             selected_creative |->
                 all_creative[((slide_number - 1) % Len(all_creative)) + 1]]
    IN  instruction(split_and_strip(color_palette.objects),
                    split_and_strip(color_palette.creative_elements))

\* The Layer 2 objects instruction: its interpolated values.
layer2_instruction(slide_title, slide_visual_context) ==
    [visual_approach |-> slide_visual_context.visual_approach,
     keywords |-> join(", ", slide_visual_context.keywords),
     purpose_name |-> slide_visual_context.purpose_name,
     layer |-> 2,
     slide_title |-> slide_title,
     purpose_objects |-> slide_visual_context.objects,
     purpose_icons |-> slide_visual_context.icons,
     purpose_style |-> slide_visual_context.style]

\* A test of the slide content that takes an empty text for content.
slide_content_given(slide_title, slide_description) ==
    slide_title # None /\ slide_description # None

\* if slide_title and slide_description: both are given and not empty.
slide_content_provided(slide_title, slide_description) ==
    truthy(slide_title) /\ truthy(slide_description)

\* generate_enhanced_image_prompt(...), run without interruption on
\* generator state `state` and palette table `table`.  Returns the table
\* and the generator state it leaves, the seed, template key and flow
\* element it used and the interpolated values of the prompt text (the rest
\* of the text is fixed).
generate_enhanced_image_prompt(state, table, topic, slide_number, total_slides, style, brand_colors, project_id, slide_title, slide_description) ==
    LET prompt_of(flow_element, color_palette) ==
            [topic |-> topic,
             slide_number |-> slide_number,
             total_slides |-> total_slides,
             flow_desc |->
                 get_slide_flow_description(slide_number, total_slides,
                                            flow_element),
             objects_instruction |->
                 IF slide_content_provided(slide_title, slide_description)
                 THEN layer2_instruction(slide_title[1],
                          get_slide_visual_context(slide_title[1],
                              slide_description[1], slide_number, total_slides,
                              topic))
                 ELSE layer1_instruction(color_palette,
                          get_topic_category(topic), topic, slide_number),
             accent_color |-> color_palette.accent,
             bg_color |-> color_palette.background,
             bg_alt |-> color_palette.background_alt]
        composed(seed, selection, template, palette_call) ==
            [flow_element |-> template.flow_element,
             state |-> selection.state,
             seed |-> seed,
             palettes |-> palette_call.palettes,
             template_key |-> selection.value,
             prompt |-> prompt_of(template.flow_element, palette_call.palette)]
        selected(seed, selection) ==
            composed(seed, selection, DESIGN_TEMPLATES[selection.value],
                     get_topic_color_palette(table, topic, brand_colors))
        seeded(seed) ==
            selected(seed, select_design_template(state, Some(seed), style))
    IN  seeded(generate_carousel_flow_seed(
                   IF project_id # None /\ project_id[1] # 0 THEN project_id[1]
                   ELSE 0,
                   topic))

(***************************************************************************)
(* Texts by position.  A text too long to write out is the sequence of its *)
(* pieces: the characters first..last of a named part that is `length`     *)
(* characters long.  Slicing and concatenation act on the positions.       *)
(***************************************************************************)
\* A part in full.
whole(part, length) ==
    IF length = 0 THEN << >>
    ELSE << [part |-> part, length |-> length, first |-> 1, last |-> length] >>

RECURSIVE text_len(_)
\* len(text)
text_len(text) ==
    IF text = << >> THEN 0
    ELSE (text[1].last - text[1].first + 1) + text_len(Tail(text))

RECURSIVE text_from(_, _)
\* text[k:] for 0 <= k
text_from(text, k) ==
    IF text = << >> \/ k = 0 THEN text
    ELSE LET n == text[1].last - text[1].first + 1
         IN  IF k >= n THEN text_from(Tail(text), k - n)
             ELSE << [text[1] EXCEPT !.first = @ + k] >> \o Tail(text)

RECURSIVE text_head(_, _)
\* text[:k] for 0 <= k
text_head(text, k) ==
    IF text = << >> \/ k = 0 THEN << >>
    ELSE LET n == text[1].last - text[1].first + 1
         IN  IF k >= n THEN << text[1] >> \o text_head(Tail(text), k - n)
             ELSE << [text[1] EXCEPT !.last = text[1].first + k - 1] >>

\* text[-k:] for 0 < k
text_tail(text, k) ==
    IF text_len(text) <= k THEN text ELSE text_from(text, text_len(text) - k)

RECURSIVE lines_len(_)
\* len('\n'.join(lines))
lines_len(lines) ==
    IF lines = << >> THEN 0
    ELSE IF Len(lines) = 1 THEN Len(lines[1])
    ELSE Len(lines[1]) + 1 + lines_len(Tail(lines))

\* The characters of the prompt template outside its replacement fields:
\* up to the flow description, from there to the objects instruction, and
\* from there to the end.
PROMPT_FLOW_FIXED == 268

PROMPT_COLOURS_FIXED == 750

PROMPT_COMPOSITION_FIXED == 1918

\* The same for the two objects instructions.
LAYER1_FIXED == 158

LAYER2_FIXED == 401

\* len(objects_instruction)
objects_instruction_len(objects_instruction) ==
    IF objects_instruction.layer = 2
    THEN LAYER2_FIXED + 2 * Len(objects_instruction.slide_title)
             + Len(objects_instruction.purpose_name)
             + Len(objects_instruction.keywords)
             + Len(objects_instruction.visual_approach)
             + Len(objects_instruction.purpose_objects)
             + Len(objects_instruction.purpose_icons)
             + Len(objects_instruction.purpose_style)
    ELSE LAYER1_FIXED + Len(objects_instruction.topic_category)
             + Len(objects_instruction.selected_objects_str)
             + Len(objects_instruction.selected_creative)
             + Len(objects_instruction.topic)

\* The string generate_enhanced_image_prompt returns, from its interpolated
\* values: the flow description, the colour directives, the visual
\* vocabulary and the composition constraints, in this order.
prompt_text(prompt) ==
    whole("flow description",
          PROMPT_FLOW_FIXED + Len(prompt.topic) + Len(str(prompt.slide_number))
              + Len(str(prompt.total_slides)) + lines_len(prompt.flow_desc))
    \o whole("colour directives",
             PROMPT_COLOURS_FIXED + Len(prompt.accent_color)
                 + 2 * Len(prompt.bg_color) + Len(prompt.bg_alt)
                 + Len(str(prompt.total_slides)))
    \o whole("visual vocabulary",
             objects_instruction_len(prompt.objects_instruction))
    \o whole("composition constraints",
             PROMPT_COMPOSITION_FIXED + Len(prompt.bg_color) + Len(prompt.topic))

(***************************************************************************)
(* generate_saystory_image(...) of views.py: the request it sends to the   *)
(* image API, the file it saves and the file name it returns.              *)
(***************************************************************************)
\* The characters of the two request templates outside their replacement
\* fields: with a topic, and without.
IMAGE_INSTRUCTION_FIXED == 561

IMAGE_FALLBACK_FIXED == 1006

\* styling_context[-1500:] and saystory_prompt[:4000]
STYLING_CONTEXT_KEPT == 1500

IMAGE_PROMPT_KEPT == 4000

\* saystory_prompt: the image instruction (the slide's image prompt and the
\* platform, upper-cased, in fixed text) and then the end of the styling
\* context; without a topic a fixed text about prompt, platform and style.
saystory_prompt(prompt, platform, style, slide_number, total_slides, topic, styling_context) ==
    IF topic # ""
    THEN whole("image instruction",
               IMAGE_INSTRUCTION_FIXED + Len(prompt) + Len(platform)
                   + Len(str(slide_number)) + Len(str(total_slides)))
         \o (IF text_len(styling_context) > STYLING_CONTEXT_KEPT
             THEN text_tail(styling_context, STYLING_CONTEXT_KEPT)
             ELSE styling_context)
    ELSE whole("image instruction",
               IMAGE_FALLBACK_FIXED + Len(prompt) + Len(platform) + Len(style))

\* The name of the file of a slide's image.
image_filename(slide_id, uuid) ==
    "saystory_slide_" \o str(slide_id) \o "_" \o uuid \o ".png"

\* generate_saystory_image(...) on generator state `state` and palette table
\* `table`, when the image API answers `outcome` and uuid4 gives `uuid`.
\* A topic of "" stands for no topic.  Returns the states it leaves, the
\* styling context it composed, the prompt it sent, the file it saved and
\* the file name it returns.
generate_saystory_image(state, table, prompt, platform, style, slide_id, slide_number, total_slides, project_id, topic, brand_colors, slide_title, slide_description, outcome, uuid) ==
    LET sent(styling_context) ==
            text_head(saystory_prompt(prompt, platform, style, slide_number,
                                      total_slides, topic, styling_context),
                      IMAGE_PROMPT_KEPT)
        filename == image_filename(slide_id, uuid)
        saved == outcome \in { "url", "b64_json" }
        requested(composed, styling_context) ==
            [state |-> IF topic # "" THEN composed.state ELSE state,
             palettes |-> IF topic # "" THEN composed.palettes ELSE table,
             styling_context |-> styling_context,
             sent |-> sent(styling_context),
             filename |-> IF saved THEN Some(filename) ELSE None,
             saved |-> IF saved THEN { filename } ELSE {}]
        styled(composed) ==
            requested(composed,
                      IF topic # "" THEN prompt_text(composed.prompt) ELSE << >>)
    IN  styled(generate_enhanced_image_prompt(state, table, topic, slide_number,
                   total_slides, Some(style), brand_colors, project_id,
                   slide_title, slide_description))

(***************************************************************************)
(* validate_hex_color of views.py; utils.py has the same function.  The    *)
(* colour is None or a text.                                               *)
(***************************************************************************)
\* re.match(r'^#[0-9A-F]{n}$', color)
matches_hex(color, n) ==
    /\ Len(color) = n + 1
    /\ CharAt(color, 1) = "#"
    /\ \A i \in 2..(n + 1) :
           CharAt(color, i) \in DIGIT_CHARS \cup Chars("ABCDEF")

\* The function returning a three-digit colour as it is.
validate_hex_color_shorthand_kept(color) ==
    IF ~ truthy(color) THEN "#FFFFFF"
    ELSE LET checked(with_hash) ==
                 IF matches_hex(with_hash, 6) THEN with_hash
                 ELSE IF matches_hex(with_hash, 3) THEN with_hash
                 ELSE "#405DE6"
             prefixed(stripped) ==
                 checked(IF Len(stripped) > 0 /\ CharAt(stripped, 1) = "#"
                         THEN stripped ELSE "#" \o stripped)
         IN  prefixed(upper(strip(color[1])))

\* validate_hex_color(color)
validate_hex_color(color) ==
    IF ~ truthy(color) THEN "#FFFFFF"
    ELSE LET checked(with_hash) ==
                 IF matches_hex(with_hash, 6) THEN with_hash
                 ELSE IF matches_hex(with_hash, 3)
                 THEN "#" \o CharAt(with_hash, 2) \o CharAt(with_hash, 2)
                          \o CharAt(with_hash, 3) \o CharAt(with_hash, 3)
                          \o CharAt(with_hash, 4) \o CharAt(with_hash, 4)
                 ELSE "#405DE6"
             prefixed(stripped) ==
                 checked(IF Len(stripped) > 0 /\ CharAt(stripped, 1) = "#"
                         THEN stripped ELSE "#" \o stripped)
         IN  prefixed(upper(strip(color[1])))

(***************************************************************************)
(* Slide content of views.py: what the text API returned, as json.loads    *)
(* reads it, and the slides made of it.                                    *)
(***************************************************************************)
\* JSON values: a scalar by its text (kept with the keys), a list by its
\* items, a dict by its keys and their values.
json_scalar(text) == [type |-> "scalar", keys |-> << text >>, items |-> << >>]

json_list(items) == [type |-> "list", keys |-> << >>, items |-> items]

json_dict(keys, items) == [type |-> "dict", keys |-> keys, items |-> items]

\* The elements of a list.
Range(seq) == { seq[i] : i \in 1..Len(seq) }

\* key in parsed
has_key(parsed, key) == \E k \in 1..Len(parsed.keys) : parsed.keys[k] = key

\* parsed[key], for a key of the dict
value_of(parsed, key) ==
    parsed.items[CHOOSE k \in 1..Len(parsed.keys) : parsed.keys[k] = key]

\* The JSON value the text API returned, when it returned one.
api_value(api) ==
    IF raised(api) THEN None
    ELSE IF api[2] = None THEN None
    ELSE IF raised(api[2][1]) THEN None
    ELSE Some(api[2][1][2])

\* The text of a scalar under a key of a dict.
text_of(dict, key) == value_of(dict, key).keys[1]

\* A slide object with all six keys, each a text.
well_formed_slide(entry) ==
    /\ entry.type = "dict"
    /\ \A key \in { "title", "description", "image_prompt", "background_color",
                    "font_color", "layout" } :
           has_key(entry, key) /\ value_of(entry, key).type = "scalar"

\* list[:n]
list_head(list, n) ==
    IF n >= 0 THEN SubSeq(list, 1, IF n < Len(list) THEN n ELSE Len(list))
    ELSE SubSeq(list, 1, IF Len(list) + n > 0 THEN Len(list) + n ELSE 0)

\* The colours of a platform: (background, font) by slide.
color_palettes ==
    "instagram" :> << << "#405DE6", "#FFFFFF" >>, << "#8A2BE2", "#FFFFFF" >>,
                      << "#FF6B6B", "#FFFFFF" >>, << "#4ECDC4", "#000000" >>,
                      << "#FFD166", "#000000" >> >> @@
    "linkedin" :> << << "#0A66C2", "#FFFFFF" >>, << "#333333", "#FFFFFF" >>,
                     << "#666666", "#FFFFFF" >>, << "#999999", "#000000" >>,
                     << "#CCCCCC", "#000000" >> >> @@
    "twitter" :> << << "#1DA1F2", "#FFFFFF" >>, << "#14171A", "#FFFFFF" >>,
                    << "#657786", "#FFFFFF" >>, << "#AAB8C2", "#000000" >>,
                    << "#E1E8ED", "#000000" >> >>

\* The colours create_default_slides has besides.
presentation_colors ==
    "presentation" :> << << "#2E86AB", "#FFFFFF" >>, << "#A23B72", "#FFFFFF" >>,
                         << "#F18F01", "#000000" >>, << "#C73E1D", "#FFFFFF" >>,
                         << "#6BAA75", "#000000" >> >>

\* templates of create_default_slides: title, description, suffix.
default_templates(topic) ==
    << << "Unlock " \o topic \o " Excellence",
          "Discover the essential concepts that drive success in " \o topic \o ".",
          "minimal clean background with soft gradients" >>,
       << "Master " \o topic \o " Fundamentals",
          "Build a strong foundation with core " \o topic \o " principles.",
          "professional geometric shapes and subtle patterns" >>,
       << "Transform Your " \o topic \o " Journey",
          "Implement proven strategies to accelerate your " \o topic \o " growth.",
          "modern abstract design with flowing elements" >>,
       << "Elevate Your " \o topic \o " Skills",
          "Take your expertise to the next level with advanced techniques.",
          "sophisticated color gradients and clean lines" >>,
       << "Dominate " \o topic \o " Strategies",
          "Learn industry-leading approaches that deliver results.",
          "premium design with elegant simplicity" >>,
       << "Navigate " \o topic \o " Like a Pro",
          "Master the skills needed to excel in " \o topic \o ".",
          "contemporary layout with subtle textures" >>,
       << "Revolutionize Your " \o topic \o " Approach",
          "Discover innovative methods that transform outcomes.",
          "cutting-edge design with minimalist elements" >>,
       << "Conquer " \o topic \o " Challenges",
          "Overcome obstacles and achieve " \o topic \o " mastery.",
          "bold and confident design aesthetic" >> >>

\* create_default_slides(topic, slide_count, platform, style)
create_default_slides(topic, slide_count, platform, style) ==
    LET table == color_palettes @@ presentation_colors
        colors == dict_get(table, platform, table["instagram"])
        templates == default_templates(topic)
        count == IF slide_count < Len(templates) THEN slide_count ELSE Len(templates)
    IN  [ k \in 1..count |->
            [font_color |-> colors[((k - 1) % Len(colors)) + 1][2],
             title |-> templates[k][1],
             description |-> templates[k][2],
             image_prompt |->
                 "Minimal saystory " \o platform \o " background: " \o templates[k][3]
                     \o ", perfect for professional " \o topic
                     \o " content, text-friendly design",
             background_color |-> colors[((k - 1) % Len(colors)) + 1][1]] ]

saystory_titles(topic) ==
    << "Unlock " \o topic \o " Success",
       "Master " \o topic \o " Fundamentals",
       "Transform Your " \o topic \o " Journey",
       "Elevate Your " \o topic \o " Skills",
       "Discover " \o topic \o " Excellence",
       "Navigate " \o topic \o " Like a Pro",
       "Accelerate " \o topic \o " Growth",
       "Dominate " \o topic \o " Strategies",
       "Revolutionize Your " \o topic \o " Approach",
       "Conquer " \o topic \o " Challenges" >>

saystory_descriptions(topic) ==
    << "Discover the essential concepts that drive success in " \o topic \o ".",
       "Master the core principles behind effective " \o topic \o " strategies.",
       "Transform your approach with proven " \o topic \o " techniques.",
       "Elevate your skills with professional " \o topic \o " insights.",
       "Unlock excellence through strategic " \o topic \o " implementation.",
       "Navigate complex " \o topic \o " challenges with confidence.",
       "Accelerate your progress with expert " \o topic \o " guidance.",
       "Dominate your field with advanced " \o topic \o " strategies.",
       "Revolutionize your results with innovative " \o topic \o " methods.",
       "Conquer obstacles and achieve " \o topic \o " mastery." >>

\* create_fallback_slide(topic, slide_number, platform, style), slide_number >= 1
create_fallback_slide(topic, slide_number, platform, style) ==
    LET colors == dict_get(color_palettes, platform, color_palettes["instagram"])
        color == colors[((slide_number - 1) % Len(colors)) + 1]
        titles == saystory_titles(topic)
        descriptions == saystory_descriptions(topic)
        title_idx == IF slide_number - 1 < Len(titles) - 1 THEN slide_number - 1
                     ELSE Len(titles) - 1
        desc_idx == IF slide_number - 1 < Len(descriptions) - 1 THEN slide_number - 1
                    ELSE Len(descriptions) - 1
    IN  [font_color |-> color[2],
         title |-> titles[title_idx + 1],
         description |-> descriptions[desc_idx + 1],
         image_prompt |->
             "Minimal saystory " \o platform \o " background with soft " \o style
                 \o " gradients, subtle abstract shapes, and clean professional design perfect for "
                 \o topic \o " content",
         background_color |-> color[1]]

RECURSIVE replace_char(_, _, _)
\* str.replace(old, new) for single characters.
replace_char(s, old, new) ==
    IF s = "" THEN ""
    ELSE (IF Head(s) = old THEN new ELSE Head(s)) \o replace_char(Tail(s), old, new)

\* Slide.LAYOUT_CHOICES of models.py
LAYOUT_CHOICES == { "image-top", "image-left", "image-right", "full-background" }

\* mapping of map_layout
layout_mapping ==
    ("hero_split" :> "image-right") @@ ("visual_focus" :> "full-background") @@
    ("card_grid" :> "image-left") @@ ("step_flow" :> "image-right") @@
    ("stat_focus" :> "image-top")

\* map_layout(layout_name, slide_num, total_slides) of
\* select_preview_and_create_project, for a layout name that is a text.
map_layout(layout_name, slide_num, total_slides) ==
    LET mapped(name) ==
            IF name \in { "image-left", "image-right", "image-top", "full-background",
                          "table" }
            THEN name
            ELSE dict_get(layout_mapping, name, "image-right")
    IN  mapped(replace_char(strip(lower(layout_name)), " ", "_"))

\* The slides json.loads' value holds: the list itself, the list under one
\* of four keys of a dict, or a dict with the keys of a slide.
slides_data(parsed) ==
    LET list_keys == << "slides", "content", "data", "carousel" >>
        is_list_key(k) ==
            has_key(parsed, list_keys[k]) /\ value_of(parsed, list_keys[k]).type = "list"
        found == { k \in 1..Len(list_keys) : is_list_key(k) }
        under_key ==
            IF found = {} THEN << >>
            ELSE value_of(parsed, list_keys[kth(found, 1)]).items
    IN  IF parsed.type = "list" THEN parsed.items
        ELSE IF parsed.type = "dict"
        THEN IF under_key # << >> THEN under_key
             ELSE IF \A key \in { "title", "description", "image_prompt" } :
                         has_key(parsed, key)
                  THEN << parsed >>
                  ELSE << >>
        ELSE << >>

\* The name map_layout where the loop over the slides calls it: a local
\* name of the function, bound by the def statement that follows the loop.
map_layout_in_loop == Raises("UnboundLocalError")

\* The dict display of a validated slide: slide.get(...) of each key, then
\* the call of map_layout.
validated_slide(slide) ==
    IF slide.type # "dict" THEN Raises("AttributeError")
    ELSE map_layout_in_loop

RECURSIVE fill_with_fallback(_, _, _, _, _)
\* while len(validated_slides) < slide_count: append a fallback slide
fill_with_fallback(validated_slides, topic, slide_count, platform, style) ==
    IF Len(validated_slides) < slide_count
    THEN fill_with_fallback(
             Append(validated_slides,
                    create_fallback_slide(topic, Len(validated_slides) + 1,
                                          platform, style)),
             topic, slide_count, platform, style)
    ELSE validated_slides

\* The function without its handler of the API's exceptions.
generate_saystory_slides_content_unhandled(topic, slide_count, platform, style, api) ==
    IF raised(api) THEN api
    ELSE IF api[2] = None
    THEN Raises("AttributeError")
    ELSE IF raised(api[2][1])
    THEN Returns(create_default_slides(topic, slide_count, platform, style))
    ELSE LET entries == list_head(slides_data(api[2][1][2]), slide_count)
             validated_slides ==
                 [ i \in 1..Len(entries) |->
                     IF raised(validated_slide(entries[i]))
                     THEN create_fallback_slide(topic, i, platform, style)
                     ELSE validated_slide(entries[i])[2] ]
         IN  Returns(fill_with_fallback(validated_slides, topic, slide_count,
                                        platform, style))

\* generate_saystory_slides_content(topic, slide_count, platform, style) when
\* client.chat.completions.create(...) ends as `api`: it raises, or returns
\* a message content: None, or a text json.loads rejects or reads.
generate_saystory_slides_content(topic, slide_count, platform, style, api) ==
    IF raised(api)
    THEN Returns(create_default_slides(topic, slide_count, platform, style))
    ELSE IF api[2] = None
    THEN Returns(create_default_slides(topic, slide_count, platform, style))
    ELSE IF raised(api[2][1])
    THEN Returns(create_default_slides(topic, slide_count, platform, style))
    ELSE LET entries == list_head(slides_data(api[2][1][2]), slide_count)
             validated_slides ==
                 [ i \in 1..Len(entries) |->
                     IF raised(validated_slide(entries[i]))
                     THEN create_fallback_slide(topic, i, platform, style)
                     ELSE validated_slide(entries[i])[2] ]
         IN  Returns(fill_with_fallback(validated_slides, topic, slide_count,
                                        platform, style))

\* get_platform_dimensions(platform) of utils.py, format_type 'square'
get_platform_dimensions(platform) ==
    LET dimensions == "instagram" :> << 1080, 1080 >> @@ "linkedin" :> << 1080, 1080 >>
    IN  dict_get(dimensions, platform, dimensions["instagram"])

(***************************************************************************)
(* generate_saystory_background_svg(width, height, platform) of utils.py,   *)
(* which views.py imports: the other user of the shared generator.  Only   *)
(* its effect on the generator is kept: the draws it makes, in order.      *)
(***************************************************************************)
svg_shapes ==
    "instagram" :> << "circle", "ellipse", "rectangle" >> @@
    "linkedin" :> << "rectangle", "circle" >>

\* One pass of the loop body: x, y, size and the shape's own two sizes.
svg_shape_draw(state, width, height, shape_type) ==
    LET x == random_randint(state, 0, width)
        y == random_randint(x.state, 0, height)
        size == random_randint(y.state, 50, 200)
    IN  IF shape_type = "circle" THEN size.state
        ELSE IF shape_type = "ellipse"
        THEN random_randint(random_randint(size.state, 25, 100).state,
                            25, 100).state
        ELSE random_randint(random_randint(size.state, 50, 150).state,
                            50, 150).state

RECURSIVE svg_shape_draws(_, _, _, _, _)
\* The loop  for i in range(n) ; each pass starts from the state the pass
\* before it left.
svg_shape_draws(state, n, width, height, shape_type) ==
    IF n = 0 THEN state
    ELSE CHOOSE last \in
             { svg_shape_draws(after, n - 1, width, height, shape_type) :
                   after \in { svg_shape_draw(state, width, height, shape_type) } } :
             TRUE

\* The generator state generate_saystory_background_svg leaves.
generate_saystory_background_svg(state, width, height, platform) ==
    LET gradient == randbelow(state, 5)
        shape_type == random_choice(gradient.state, svg_shapes[platform])
        count == random_randint(shape_type.state, 3, 6)
    IN  svg_shape_draws(count.state, count.value, width, height,
                        shape_type.value)

(***************************************************************************)
(* Bounds and input sets.                                                  *)
(***************************************************************************)
\* Largest slide number and slide count considered.
MaxSlides == 3

\* Largest number of uses of the shared generator that do not reseed it.
MaxDraws == 2

\* Largest number of words in a generated topic or title.
MaxWords == 2

\* Number of threads that call select_design_template concurrently.
NumThreads == 2

\* max_keywords of extract_slide_keywords when the caller gives none.
DEFAULT_MAX_KEYWORDS == 5

\* The generator is seeded from the operating system's entropy when the
\* random module is imported: any state.
InitialRngStates == { 0, 1, 40503 }

StyleHints == { None, Some("Minimal"), Some("retro") }

SelectSeeds == { None, Some(7), Some(4242) }

Platforms == { "instagram", "linkedin" }

\* A carousel: the project, topic and style every prompt of it is made for.
Carousels ==
    { [style |-> Some("modern"), project_id |-> None, topic |-> "AI tools"],
      [style |-> Some("modern"), project_id |-> Some(7), topic |-> "AI tools"],
      [style |-> Some("Playful"), project_id |-> Some(7), topic |-> "Daily Yoga"],
      [style |-> Some("retro"), project_id |-> Some(12), topic |-> "Finance stocks"] }

\* The tables a prompt request finds in TOPIC_COLOR_PALETTES: the module's
\* own, no request served here being given brand colours.
PaletteTables == { TOPIC_COLOR_PALETTES }

\* The slide_title and slide_description a caller passes.
SlideTexts ==
    { << None, None >>,
      << Some("Growth tips"), Some("") >>,
      << Some("Growth tips"), Some("How to start now") >> }

RECURSIVE Texts(_, _)
\* The texts of at most n words of `words`, separated by single spaces.
Texts(words, n) ==
    IF n = 0 THEN { "" }
    ELSE LET shorter == Texts(words, n - 1)
         IN  shorter \cup words
                 \cup { t \o " " \o w : t \in shorter \ { "" }, w \in words }

TopicWords == { "Finance", "stocks", "Daily", "Yoga", "How", "to", "Quantum" }

Topics == Texts(TopicWords, MaxWords)

TitleWords == { "Growth", "40%", "Follow", "History", "tips", "top5" }

Titles == Texts(TitleWords, MaxWords)

Descriptions ==
    { "", "Learn the basics of the stock market", "How to start now" }

GlobalTopics == { "Daily Yoga" }

FlowElements ==
    { DESIGN_TEMPLATES[k].flow_element : k \in { "soft_beige", "pearl_elegant" } }

Positions == (1..MaxSlides) \X (1..MaxSlides)

Threads == 1..NumThreads

\* Largest number of two-character groups in a generated colour string.
MaxPairs == 3

\* Two characters of a colour string: digits of either case, a letter that
\* is no digit, a sign, white space, an underscore.
HexPairs == { "00", "fF", "g0", "-5", " 5", "1_" }

RECURSIVE PairStrings(_)
\* The strings of at most n groups.
PairStrings(n) ==
    IF n = 0 THEN { "" }
    ELSE LET shorter == PairStrings(n - 1)
         IN  shorter \cup { s \o pair : s \in shorter, pair \in HexPairs }

\* Colour strings: with no, one or two leading #, of even or odd length.
HexColors ==
    { prefix \o body \o tail :
          prefix \in { "", "#", "##" }, body \in PairStrings(MaxPairs),
          tail \in { "", "f", "g" } }

\* Numbers: integers inside and outside 0..255 and floats between integers.
Numbers ==
    { << 0 - 1, 1 >>, << 0, 1 >>, << 15, 1 >>, << 16, 1 >>, << 255, 1 >>,
      << 256, 1 >>, << 300, 1 >>, << 509, 2 >>, << 0 - 1, 2 >>, << 2559, 10 >> }

\* Triples of integers of 0..255 in which every value occurs at every place.
ByteTriples ==
    { << << a, 1 >>, << e[1], 1 >>, << e[2], 1 >> >> :
          a \in 0..255, e \in { 0, 200 } \X { 0, 9 } }
    \cup { << << e[1], 1 >>, << a, 1 >>, << e[2], 1 >> >> :
               a \in 0..255, e \in { 0, 200 } \X { 0, 9 } }
    \cup { << << e[1], 1 >>, << e[2], 1 >>, << a, 1 >> >> :
               a \in 0..255, e \in { 0, 200 } \X { 0, 9 } }

\* Colours given to validate_hex_color: no colour, the empty text, colours of
\* three and six digits of either case with and without '#' and white space
\* around them, names, other lengths, and the colour strings above.
ColorValues ==
    { None }
    \cup { Some(text) : text \in
               { "", "  ", "#", "fff", "#fff", "#FfF", " #abc ", "#a1b2c3", "A1B2C3",
                 " 00ff7f", "#405DE6", "red", "blue", "#12345", "#1234567",
                 "#GGGGGG", "#ggg", "##fff", "rgb(0,0,0)", "# fff" } }
    \cup { Some(text) : text \in HexColors }

\* Largest slide number of a composed prompt; the longest list of objects
\* has 20 entries.
MaxSlideNumber == 21

\* A topic of every category, 'default' included.
CategoryTopics ==
    { "business", "marketing", "tech", "health", "lifestyle", "learn", "art",
      "travel", "investing", "fashion", "food", "Quantum" }

\* Slide texts: none, one of the two, an empty one, both.
ComposeTexts ==
    SlideTexts \cup { << None, Some("How to start now") >>,
                      << Some(""), Some("How to start now") >> }

\* Largest number of brand colours a caller gives.
MaxBrandColors == 2

\* A brand colour: one that can be converted and one that cannot.
BrandColors == { "#7C3AED", "zz" }

RECURSIVE BrandColorLists(_)
\* The lists of at most n brand colours; the empty list is also None.
BrandColorLists(n) ==
    IF n = 0 THEN { << >> }
    ELSE LET shorter == BrandColorLists(n - 1)
         IN  shorter \cup { Append(list, c) : list \in shorter, c \in BrandColors }

\* Topics of three categories, two of them of the same one.
PaletteTopics == { "Daily Yoga", "AI tools", "Finance stocks", "Quantum" }

RECURSIVE repeat(_, _)
\* s * n
repeat(s, n) == IF n = 0 THEN "" ELSE s \o repeat(s, n - 1)

\* Image prompts of a slide: a usual one, and one longer than what the
\* image API is sent.
ImagePrompts ==
    { "diverse people holding hands", repeat("very detailed ", 300) }

\* Topics of a project; "" is not a topic.
ProjectTopics == { "", "Daily Yoga", "AI tools" }

\* How client.images.generate(...) ends: with an entry that has a url, one
\* that has base64 data, one that has neither, or by raising.
ImageApiOutcomes == { "url", "b64_json", "neither", "raises" }

\* uuid.uuid4().hex[:8]
Uuids == { "0a1b2c3d", "9f8e7d6c" }

\* Largest number of projects stored.
MaxProjects == 1

\* A slide as the text API is asked to write it.
written_slide ==
    json_dict(<< "title", "description", "image_prompt", "background_color",
                 "font_color", "layout" >>,
              << json_scalar("Start small"), json_scalar("Ten minutes a day."),
                 json_scalar("sunrise over a yoga mat"), json_scalar("#FDF2F8"),
                 json_scalar("#1F2937"), json_scalar("card_grid") >>)

\* How client.chat.completions.create(...) ends: it raises; its message has
\* no content; the content is not JSON; it is JSON but a number, a dict, a
\* dict with a list of slides, one slide, an empty list, a list of entries
\* that are no slides, a list of slides.
TextApiOutcomes ==
    { Raises("APIConnectionError"),
      Returns(None),
      Returns(Some(Raises("JSONDecodeError"))),
      Returns(Some(Returns(json_scalar("42")))),
      Returns(Some(Returns(json_dict(<< "error" >>, << json_scalar("rate limit") >>)))),
      Returns(Some(Returns(json_dict(<< "slides" >>,
                                     << json_list(<< written_slide >>) >>)))),
      Returns(Some(Returns(written_slide))),
      Returns(Some(Returns(json_list(<< >>)))),
      Returns(Some(Returns(json_list(<< json_scalar("Start small"),
                                        json_dict(<< "title" >>,
                                                  << json_scalar("Start small") >>) >>)))),
      Returns(Some(Returns(json_list(<< written_slide, written_slide,
                                        written_slide >>)))) }

\* A second slide as the text API writes it: white space around the texts,
\* colours in lower case and without '#', a layout name in words.
written_loosely ==
    json_dict(<< "title", "description", "image_prompt", "background_color",
                 "font_color", "layout" >>,
              << json_scalar("  Why yoga "), json_scalar("Breathe. "),
                 json_scalar(" calm studio"), json_scalar("#fdf2f8"),
                 json_scalar("1f2937"), json_scalar("Visual Focus") >>)

\* Outcomes of the text API for one call of the slide generator.
ContentApiOutcomes ==
    TextApiOutcomes
    \cup { Returns(Some(Returns(json_list(<< written_loosely, written_slide >>)))) }

\* Largest slide_count of a call of the slide generator;
\* create_default_slides has eight templates.
MaxSlideCount == 9

\* Platforms of a call: two with colours of their own and one without.
ContentPlatforms == { "instagram", "twitter", "tiktok" }

\* Outcomes of the text API for one variant of a preview: it raises, the
\* content is JSON but no list, a list of two slides, a list whose second
\* entry is no slide object.
VariantApiOutcomes ==
    { Raises("APIConnectionError"),
      Returns(Some(Returns(json_dict(<< "error" >>, << json_scalar("rate limit") >>)))),
      Returns(Some(Returns(json_list(<< written_slide, written_loosely >>)))),
      Returns(Some(Returns(json_list(<< written_slide, json_scalar("Start small") >>)))) }

\* Requests to generate_content_previews.
PreviewRequests ==
    [style : { "modern" }, topic : { "", " Daily Yoga " }, platform : { "instagram" },
     slide_count : { None, Some(1) }, method : { "GET", "POST" }]

\* Largest number of preview sessions.
MaxSessions == 1

\* Requests to select_preview_and_create_project: with and without a session
\* id, of a session that exists or not; with and without a variant number.
SelectRequests ==
    [method : { "GET", "POST" },
     session_id : { None, Some(""), Some("session-9") }
                      \cup { Some("session-" \o str(k)) : k \in 1..MaxSessions },
     variant_number : { None, Some(1), Some(2), Some(3), Some(4) }]

\* Number of projects the editor's database holds.
NumEditorProjects == 2

\* Largest id given to a slide.
MaxSlideId == 4

\* Largest number of slides a project of the editor's database starts with.
MaxEditorSlides == 2

\* Requests to add_slide: without a project id, with 0, with the id of each
\* project and with an id no project has.
AddSlideRequests ==
    [project_id : { None, Some(0) } \cup { Some(k) : k \in 1..(NumEditorProjects + 1) },
     method : { "POST" }]
    \cup [project_id : { Some(1) }, method : { "GET" }]

\* Requests to delete_slide: without a slide id, with 0, with every id a
\* slide has, had or may get.
DeleteSlideRequests ==
    [slide_id : { None, Some(0) } \cup { Some(k) : k \in 1..MaxSlideId },
     method : { "POST" }]
    \cup [slide_id : { Some(1) }, method : { "GET" }]

\* Number of add_slide requests handled concurrently.
NumHandlers == 2

Handlers == 1..NumHandlers

\* The slide ids of a request: none, 0, every id a slide has or may get.
SlideIds == { None, Some(0) } \cup { Some(k) : k \in 1..MaxSlideId }

\* Requests to generate_slide_image; a prompt not given is ''.
GenerateSlideImageRequests ==
    [prompt : { "", "  ", " calm studio " }, slide_id : SlideIds, method : { "POST" }]
    \cup [prompt : { "calm studio" }, slide_id : { Some(1) }, method : { "GET" }]

\* Requests to generate_and_apply_image; a description not given is ''.
GenerateAndApplyImageRequests ==
    [description : { "", " a quiet lake " }, slide_id : SlideIds, method : { "POST" }]
    \cup [description : { "a quiet lake" }, slide_id : { Some(1) }, method : { "GET" }]

\* Requests to regenerate_slide_content.
RegenerateSlideContentRequests ==
    [slide_id : SlideIds, method : { "POST" }]
    \cup [slide_id : { Some(1) }, method : { "GET" }]

\* slide_data of a request to update_slide: nothing, a title, colours.
SlideDataValues ==
    { json_dict(<< >>, << >>),
      json_dict(<< "title" >>, << json_scalar("Edited") >>),
      json_dict(<< "background_color", "font_color" >>,
                << json_scalar(" #abc "), json_scalar("red") >>) }

\* Requests to update_slide.
UpdateSlideRequests ==
    [slide_id : SlideIds, slide_data : SlideDataValues, method : { "POST" }]
    \cup [slide_id : { Some(1) }, slide_data : { json_dict(<< >>, << >>) },
          method : { "GET" }]

\* Requests to adapt_slide_content, with and without a layout style.
AdaptSlideContentRequests ==
    [slide_id : SlideIds, layout_style : { None, Some(""), Some("Bold Sidebar") },
     method : { "POST" }]
    \cup [slide_id : { Some(1) }, layout_style : { Some("Bold Sidebar") },
          method : { "GET" }]

\* How the text API call of regenerate_slide_content ends: it raises, no
\* content, no JSON, a list, an object with a title and a colour, a slide.
RegenerateApiOutcomes ==
    { Raises("APIConnectionError"),
      Returns(None),
      Returns(Some(Raises("JSONDecodeError"))),
      Returns(Some(Returns(json_list(<< >>)))),
      Returns(Some(Returns(json_dict(<< "title", "background_color" >>,
                                     << json_scalar("Fresh start"),
                                        json_scalar("fff") >>)))),
      Returns(Some(Returns(written_loosely))) }

\* How the text API call of adapt_slide_content ends: it raises, no JSON, a
\* list, an object without a layout, with a layout name, with 'table'.
AdaptApiOutcomes ==
    { Raises("APIConnectionError"),
      Returns(Some(Raises("JSONDecodeError"))),
      Returns(Some(Returns(json_list(<< >>)))),
      Returns(Some(Returns(json_dict(<< "title" >>, << json_scalar("Adapted") >>)))),
      Returns(Some(Returns(json_dict(<< "title", "description", "structural_layout" >>,
                                     << json_scalar("Adapted"), json_scalar("Short."),
                                        json_scalar("Stat Focus") >>)))),
      Returns(Some(Returns(json_dict(<< "structural_layout" >>,
                                     << json_scalar("table") >>)))) }

\* slide_count of a request: not given, or a number.
SlideCounts == { None, Some(0), Some(2), Some(9) }

\* Requests to generate_saystory_carousel.
CarouselRequests ==
    [style : { "modern" }, topic : { " Daily Yoga " },
     platform : { "instagram", "twitter" }, slide_count : SlideCounts,
     method : { "POST" }]
    \cup [style : { "modern" }, topic : { "", "  ", " Daily Yoga " },
          platform : { "instagram" }, slide_count : { None }, method : { "GET", "POST" }]

(***************************************************************************)
(* State.                                                                  *)
(***************************************************************************)
VARIABLES
    rng,            \* state of the process-wide random generator
    draws,          \* uses of the generator that did not reseed it
    selectCall,     \* the last select_design_template call and its result
    selected,       \* every (seed, style_hint, result) of a seeded call
    promptCall,     \* the last generate_enhanced_image_prompt call and result
    templatesUsed,  \* every (carousel, seed, template key, flow element) used
    thread,         \* the select_design_template call each thread is in
    call,           \* a call of a pure function: pending, then done
    palettes,       \* the module's table TOPIC_COLOR_PALETTES
    paletteCall,    \* the last get_topic_color_palette call and its result
    imageRequest,   \* the last prompt sent to the image API, and its context
    media,          \* the files in MEDIA_ROOT
    projects,       \* the rows of CarouselProject
    slides,         \* the rows of Slide
    previews,       \* the rows of ContentPreview
    handler,        \* the add_slide request each concurrent handler is in
    ids,            \* the last id given in each table
    request,        \* the last HTTP request
    textApi,        \* how the text API call of the last request ended
    response        \* the response to the last request

\* The state of the views.
web ==
    << imageRequest, media, projects, slides, previews, handler, ids, request,
       textApi, response >>

vars ==
    << rng, draws, selectCall, selected, promptCall, templatesUsed, thread, call,
       palettes, paletteCall, web >>

\* A handler that has no request yet.
idle_handler == [project_id |-> None, pc |-> "idle", next_slide_number |-> 0, answered |-> 0]

InitWeb ==
    /\ imageRequest = None
    /\ media = {}
    /\ projects = {}
    /\ slides = {}
    /\ previews = {}
    /\ handler = [ h \in Handlers |-> idle_handler ]
    /\ ids = [slide |-> 0, project |-> 0]
    /\ request = None
    /\ textApi = None
    /\ response = None

idle == [style_hint |-> None, seed |-> 0, pc |-> "idle", ret |-> ""]

no_call == [ret |-> << >>, status |-> "none", fn |-> "", args |-> << >>]

Init ==
    /\ rng \in InitialRngStates
    /\ draws = 0
    /\ selectCall = None
    /\ selected = {}
    /\ promptCall = None
    /\ templatesUsed = {}
    /\ thread = [ t \in Threads |-> idle ]
    /\ call = no_call
    /\ palettes = TOPIC_COLOR_PALETTES
    /\ paletteCall = None
    /\ InitWeb

(***************************************************************************)
(* Requests served one at a time.                                          *)
(***************************************************************************)
GenerateBackgroundSvg ==
    /\ draws < MaxDraws
    /\ \E platform \in Platforms :
           rng' = generate_saystory_background_svg(rng, 1080, 1080, platform)
    /\ draws' = draws + 1
    /\ UNCHANGED << selectCall, selected, promptCall, templatesUsed, thread, call, palettes, paletteCall, web >>

SelectDesignTemplate ==
    \E seed \in SelectSeeds, style_hint \in StyleHints :
        \E r \in { select_design_template(rng, seed, style_hint) } :
            /\ seed = None => draws < MaxDraws
            /\ rng' = r.state
            /\ draws' = IF seed = None THEN draws + 1 ELSE draws
            /\ selectCall' =
                   Some([style_hint |-> style_hint, seed |-> seed, ret |-> r.value,
                         again |-> \E e \in selected :
                                       e[1] = seed /\ e[2] = style_hint])
            /\ selected' =
                   IF seed = None THEN selected
                   ELSE selected \cup { << seed, style_hint, r.value >> }
            /\ UNCHANGED << promptCall, templatesUsed, thread, call, palettes, paletteCall, web >>

GenerateEnhancedImagePrompt ==
    \E c \in Carousels, total_slides \in 1..MaxSlides, text \in SlideTexts, table \in PaletteTables :
        \E slide_number \in 1..total_slides :
            \E r \in { generate_enhanced_image_prompt(
                             rng, table, c.topic, slide_number, total_slides,
                             c.style, None, c.project_id, text[1], text[2]) } :
                /\ palettes = table
                /\ rng' = r.state
                /\ palettes' = r.palettes
                /\ promptCall' =
                       Some([seed |-> r.seed,
                             template_key |-> r.template_key,
                             prompt |-> r.prompt,
                             carousel |-> c,
                             interleaved |->
                                 /\ promptCall # None
                                 /\ promptCall[1].carousel # c
                                 /\ \E e \in templatesUsed : e[1] = c])
                /\ templatesUsed' =
                       templatesUsed \cup
                           { << c, r.seed, r.template_key, r.flow_element >> }
                /\ UNCHANGED << draws, selectCall, selected, thread, call, paletteCall, web >>

Next == GenerateEnhancedImagePrompt \/ GenerateBackgroundSvg

Spec == Init /\ [][Next]_vars

NextSelect == SelectDesignTemplate \/ GenerateBackgroundSvg

SpecSelect == Init /\ [][NextSelect]_vars


(***************************************************************************)
(* select_design_template called from several threads at once.  A call     *)
(* with a seed is two steps on the process-wide generator, random.seed     *)
(* and random.choice; the interpreter may switch threads between them.     *)
(***************************************************************************)
ParBegin(t) ==
    /\ thread[t].pc = "idle"
    /\ \E seed \in SelectSeeds \ { None }, style_hint \in StyleHints :
           /\ \A u \in Threads \ { t } :
                  thread[u].pc # "idle" => thread[u].seed # seed[1]
           /\ thread' = [thread EXCEPT ![t] =
                  [style_hint |-> style_hint, seed |-> seed[1], pc |-> "seed",
                   ret |-> ""]]
    /\ UNCHANGED << rng, draws, selectCall, selected, promptCall, templatesUsed, call, palettes, paletteCall, web >>

ParSeed(t) ==
    /\ thread[t].pc = "seed"
    /\ rng' = seed_step(rng, Some(thread[t].seed))
    /\ thread' = [thread EXCEPT ![t].pc = "choice"]
    /\ UNCHANGED << draws, selectCall, selected, promptCall, templatesUsed, call, palettes, paletteCall, web >>

ParChoice(t) ==
    /\ thread[t].pc = "choice"
    /\ \E r \in { random_choice(rng, template_candidates(thread[t].style_hint)) } :
           /\ rng' = r.state
           /\ thread' = [thread EXCEPT ![t].pc = "done", ![t].ret = r.value]
    /\ UNCHANGED << draws, selectCall, selected, promptCall, templatesUsed, call, palettes, paletteCall, web >>

ParReturn(t) ==
    /\ thread[t].pc = "done"
    /\ thread' = [thread EXCEPT ![t] = idle]
    /\ UNCHANGED << rng, draws, selectCall, selected, promptCall, templatesUsed, call, palettes, paletteCall, web >>

NextPar ==
    \E t \in Threads : ParBegin(t) \/ ParSeed(t) \/ ParChoice(t) \/ ParReturn(t)

SpecPar == Init /\ [][NextPar]_vars

(***************************************************************************)
(* The functions that use no state: a call is drawn, then made.            *)
(***************************************************************************)
pending(fn, args) == [ret |-> << >>, status |-> "pending", fn |-> fn, args |-> args]

Calls ==
    { pending("get_topic_category", << topic >>) : topic \in Topics }
    \cup { pending("get_topic_color_palette", << topic, None >>) : topic \in Topics }
    \cup { pending("analyze_slide_purpose", << title, description >>) :
               title \in Titles, description \in Descriptions }
    \cup { pending("extract_slide_keywords", << title, description, max_keywords >>) :
               title \in Titles, description \in Descriptions,
               max_keywords \in 0..DEFAULT_MAX_KEYWORDS }
    \cup { pending("get_slide_visual_context",
                   << title, description, p[1], p[2], global_topic >>) :
               title \in Titles, description \in Descriptions,
               p \in Positions, global_topic \in GlobalTopics }
    \cup { pending("get_slide_flow_description", << p[1], p[2], flow_element >>) :
               p \in Positions, flow_element \in FlowElements }

InitPure ==
    /\ rng = 0
    /\ draws = 0
    /\ selectCall = None
    /\ selected = {}
    /\ promptCall = None
    /\ templatesUsed = {}
    /\ thread = [ t \in Threads |-> idle ]
    /\ call \in Calls
    /\ palettes = TOPIC_COLOR_PALETTES
    /\ paletteCall = None
    /\ InitWeb

return(ret) ==
    /\ call' = [call EXCEPT !.status = "done", !.ret = ret]
    /\ UNCHANGED << rng, draws, selectCall, selected, promptCall, templatesUsed, thread, palettes, paletteCall, web >>

GetTopicCategory ==
    /\ call.status = "pending" /\ call.fn = "get_topic_category"
    /\ return(get_topic_category(call.args[1]))

GetTopicColorPalette ==
    /\ call.status = "pending" /\ call.fn = "get_topic_color_palette"
    /\ \E r \in { get_topic_color_palette(palettes, call.args[1], call.args[2]) } :
           /\ call' = [call EXCEPT !.status = "done", !.ret = r.palette]
           /\ palettes' = r.palettes
    /\ UNCHANGED << rng, draws, selectCall, selected, promptCall, templatesUsed, thread, paletteCall, web >>

AnalyzeSlidePurpose ==
    /\ call.status = "pending" /\ call.fn = "analyze_slide_purpose"
    /\ return(analyze_slide_purpose(call.args[1], call.args[2]))

ExtractSlideKeywords ==
    /\ call.status = "pending" /\ call.fn = "extract_slide_keywords"
    /\ return(extract_slide_keywords(call.args[1], call.args[2], call.args[3]))

GetSlideVisualContext ==
    /\ call.status = "pending" /\ call.fn = "get_slide_visual_context"
    /\ return(get_slide_visual_context(call.args[1], call.args[2], call.args[3],
                                       call.args[4], call.args[5]))

GetSlideFlowDescription ==
    /\ call.status = "pending" /\ call.fn = "get_slide_flow_description"
    /\ return(get_slide_flow_description(call.args[1], call.args[2], call.args[3]))

NextPure ==
    \/ GetTopicCategory
    \/ GetTopicColorPalette
    \/ AnalyzeSlidePurpose
    \/ ExtractSlideKeywords
    \/ GetSlideVisualContext
    \/ GetSlideFlowDescription

SpecPure == InitPure /\ [][NextPure]_vars

(***************************************************************************)
(* The colour functions: a call is drawn, then made.                       *)
(***************************************************************************)
ColorCalls ==
    { pending("hex_to_rgb", << hex_color >>) : hex_color \in HexColors }
    \cup { pending("rgb_to_hex", << << r, g, b >> >>) :
               r \in Numbers, g \in Numbers, b \in Numbers }
    \cup { pending("hex_to_rgb(rgb_to_hex)", << rgb >>) : rgb \in ByteTriples }
    \cup { pending("generate_pastel_variant", << hex_color, DEFAULT_LIGHTNESS_BOOST >>) :
               hex_color \in HexColors }
    \cup { pending("generate_complementary_color", << hex_color >>) :
               hex_color \in HexColors }
    \cup { pending("validate_hex_color", << color >>) : color \in ColorValues }
    \cup { pending("get_topic_color_palette", << topic, brand_colors >>) :
               topic \in PaletteTopics,
               brand_colors \in BrandColorLists(MaxBrandColors) }

InitColor ==
    /\ rng = 0
    /\ draws = 0
    /\ selectCall = None
    /\ selected = {}
    /\ promptCall = None
    /\ templatesUsed = {}
    /\ thread = [ t \in Threads |-> idle ]
    /\ call \in ColorCalls
    /\ palettes = TOPIC_COLOR_PALETTES
    /\ paletteCall = None
    /\ InitWeb

HexToRgb ==
    /\ call.status = "pending" /\ call.fn = "hex_to_rgb"
    /\ return(hex_to_rgb(call.args[1]))

RgbToHex ==
    /\ call.status = "pending" /\ call.fn = "rgb_to_hex"
    /\ return(rgb_to_hex(call.args[1]))

\* hex_to_rgb applied to what rgb_to_hex returns.
HexToRgbOfRgbToHex ==
    /\ call.status = "pending" /\ call.fn = "hex_to_rgb(rgb_to_hex)"
    /\ return(hex_to_rgb(rgb_to_hex(call.args[1])))

GeneratePastelVariant ==
    /\ call.status = "pending" /\ call.fn = "generate_pastel_variant"
    /\ return(generate_pastel_variant(call.args[1], call.args[2]))

GenerateComplementaryColor ==
    /\ call.status = "pending" /\ call.fn = "generate_complementary_color"
    /\ return(generate_complementary_color(call.args[1]))

ValidateHexColor ==
    /\ call.status = "pending" /\ call.fn = "validate_hex_color"
    /\ return(validate_hex_color(call.args[1]))

NextColor ==
    \/ HexToRgb
    \/ RgbToHex
    \/ HexToRgbOfRgbToHex
    \/ GeneratePastelVariant
    \/ GenerateComplementaryColor
    \/ ValidateHexColor
    \/ GetTopicColorPalette

SpecColor == InitColor /\ [][NextColor]_vars

(***************************************************************************)
(* One call of generate_enhanced_image_prompt, for a slide of a carousel   *)
(* of any category.                                                        *)
(***************************************************************************)
ComposeCalls ==
    { pending("generate_enhanced_image_prompt",
              << topic, slide_number, MaxSlideNumber, Some("modern"), None,
                 Some(7), None, None >>) :
          topic \in CategoryTopics, slide_number \in 1..MaxSlideNumber }
    \cup { pending("generate_enhanced_image_prompt",
                   << topic, slide_number, MaxSlides, Some("modern"), brand_colors,
                      Some(7), text[1], text[2] >>) :
               topic \in CategoryTopics, slide_number \in 1..MaxSlides,
               brand_colors \in { None, << "zz" >> }, text \in ComposeTexts }

InitCompose ==
    /\ rng \in InitialRngStates
    /\ draws = 0
    /\ selectCall = None
    /\ selected = {}
    /\ promptCall = None
    /\ templatesUsed = {}
    /\ thread = [ t \in Threads |-> idle ]
    /\ call \in ComposeCalls
    /\ palettes = TOPIC_COLOR_PALETTES
    /\ paletteCall = None
    /\ InitWeb

ComposeImagePrompt ==
    /\ call.status = "pending" /\ call.fn = "generate_enhanced_image_prompt"
    /\ \E r \in { generate_enhanced_image_prompt(
                       rng, palettes, call.args[1], call.args[2], call.args[3],
                       call.args[4], call.args[5], call.args[6], call.args[7],
                       call.args[8]) } :
           /\ rng' = r.state
           /\ palettes' = r.palettes
           /\ call' = [call EXCEPT !.status = "done", !.ret = r.prompt]
    /\ UNCHANGED << draws, selectCall, selected, promptCall, templatesUsed, thread, paletteCall, web >>

NextCompose == ComposeImagePrompt

SpecCompose == InitCompose /\ [][NextCompose]_vars

(***************************************************************************)
(* get_topic_color_palette called again and again, with and without brand  *)
(* colours, on the one table of the module.                                *)
(***************************************************************************)
RequestTopicColorPalette ==
    \E topic \in PaletteTopics, brand_colors \in BrandColorLists(MaxBrandColors) :
        \E r \in { get_topic_color_palette(palettes, topic, brand_colors) },
           category \in { get_topic_category(topic) } :
            LET before == IF paletteCall = None THEN {} ELSE paletteCall[1].branded
            IN  /\ palettes' = r.palettes
                /\ paletteCall' =
                       Some([topic |-> topic,
                             brand_colors |-> brand_colors,
                             palette |-> r.palette,
                             branded |-> IF brand_colors # << >>
                                         THEN before \cup { category }
                                         ELSE before,
                             later |-> category \in before])
                /\ UNCHANGED << rng, draws, selectCall, selected, promptCall, templatesUsed, thread, call, web >>

NextPalette == RequestTopicColorPalette

InitPalette == Init /\ rng = 0

SpecPalette == InitPalette /\ [][NextPalette]_vars


(***************************************************************************)
(* One call of generate_saystory_image, as the views make it for a slide.  *)
(***************************************************************************)
ImageCalls ==
    { pending("generate_saystory_image",
              << prompt, "instagram", "modern", slide_number, slide_number,
                 MaxSlides, Some(7), topic, None, text[1], text[2] >>) :
          prompt \in ImagePrompts, slide_number \in 1..MaxSlides,
          topic \in ProjectTopics,
          text \in { << None, None >>,
                     << Some("Growth tips"), Some("How to start now") >> } }

InitImage ==
    /\ rng = 0
    /\ draws = 0
    /\ selectCall = None
    /\ selected = {}
    /\ promptCall = None
    /\ templatesUsed = {}
    /\ thread = [ t \in Threads |-> idle ]
    /\ call \in ImageCalls
    /\ palettes = TOPIC_COLOR_PALETTES
    /\ paletteCall = None
    /\ InitWeb

GenerateSaystoryImage ==
    /\ call.status = "pending" /\ call.fn = "generate_saystory_image"
    /\ \E outcome \in ImageApiOutcomes, uuid \in Uuids :
           \E r \in { generate_saystory_image(
                          rng, palettes, call.args[1], call.args[2], call.args[3],
                          call.args[4], call.args[5], call.args[6], call.args[7],
                          call.args[8], call.args[9], call.args[10], call.args[11],
                          outcome, uuid) } :
               /\ rng' = r.state
               /\ palettes' = r.palettes
               /\ imageRequest' =
                      Some([styling_context |-> r.styling_context,
                            outcome |-> outcome,
                            sent |-> r.sent])
               /\ media' = media \cup r.saved
               /\ call' = [call EXCEPT !.status = "done", !.ret = r.filename]
    /\ UNCHANGED << draws, selectCall, selected, promptCall, templatesUsed, thread, handler, paletteCall, projects, slides, previews, ids, request, textApi, response >>

NextImage == GenerateSaystoryImage

SpecImage == InitImage /\ [][NextImage]_vars

(***************************************************************************)
(* One call of generate_saystory_slides_content.                           *)
(***************************************************************************)
ContentCalls ==
    { pending("generate_saystory_slides_content",
              << "Daily Yoga", slide_count, platform, "modern", api >>) :
          slide_count \in 1..MaxSlideCount, platform \in ContentPlatforms,
          api \in ContentApiOutcomes }

InitContent ==
    /\ rng = 0
    /\ draws = 0
    /\ selectCall = None
    /\ selected = {}
    /\ promptCall = None
    /\ templatesUsed = {}
    /\ thread = [ t \in Threads |-> idle ]
    /\ call \in ContentCalls
    /\ palettes = TOPIC_COLOR_PALETTES
    /\ paletteCall = None
    /\ InitWeb

GenerateSaystorySlidesContent ==
    /\ call.status = "pending" /\ call.fn = "generate_saystory_slides_content"
    /\ return(generate_saystory_slides_content(
                  call.args[1], call.args[2], call.args[3], call.args[4], call.args[5]))

NextContent == GenerateSaystorySlidesContent

SpecContent == InitContent /\ [][NextContent]_vars

(***************************************************************************)
(* Requests to generate_saystory_carousel, one at a time.                  *)
(***************************************************************************)
\* The response of a view.
json_response(status, success, project_id, slide_list, error) ==
    [project_id |-> project_id, slides |-> slide_list, status |-> status,
     success |-> success, error |-> error]

\* The Slide row made of a slide's content.
slide_row(id, project_id, slide_number, content, platform) ==
    [font_color |-> content.font_color,
     title |-> content.title,
     description |-> content.description,
     slide_number |-> slide_number,
     image_prompt |-> content.image_prompt,
     background_color |-> "#FFFFFF",
     project |-> project_id,
     id |-> id,
     layout |-> IF "layout" \in DOMAIN content THEN content.layout ELSE "table",
     saystorys_width |-> get_platform_dimensions(platform)[1],
     saystorys_height |-> get_platform_dimensions(platform)[2],
     generated_image |-> None]

\* slide_data of a row, for the response.
slide_data(row) ==
    [font_color |-> row.font_color,
     title |-> row.title,
     description |-> row.description,
     slide_number |-> row.slide_number,
     image_prompt |-> row.image_prompt,
     background_color |-> row.background_color,
     id |-> row.id,
     generated_image |-> None]

GenerateSaystoryCarousel ==
    \E req \in CarouselRequests :
        LET topic == strip(req.topic)
            slide_count == IF req.slide_count = None THEN 5 ELSE req.slide_count[1]
            project_id == ids.project + 1
            project == [style |-> req.style, topic |-> topic, platform |-> req.platform,
                        slide_count |-> slide_count, id |-> project_id]
        IN  /\ request' = Some(req)
            /\ IF req.method # "POST"
               THEN /\ response' = json_response(405, FALSE, None, << >>, "Method not allowed")
                    /\ textApi' = None
                    /\ UNCHANGED << projects, slides, ids >>
               ELSE IF topic = ""
               THEN /\ response' = json_response(400, FALSE, None, << >>, "Topic is required")
                    /\ textApi' = None
                    /\ UNCHANGED << projects, slides, ids >>
               ELSE \E api \in TextApiOutcomes :
                    /\ ids.project < MaxProjects
                    /\ projects' = projects \cup { project }
                    /\ textApi' = Some(api)
                    /\ \E slides_content \in
                              { generate_saystory_slides_content(
                                    topic, slide_count, req.platform, req.style, api) } :
                           IF raised(slides_content)
                           THEN /\ response' = json_response(500, FALSE, None, << >>,
                                                   "Failed to generate carousel")
                                /\ ids' = [ids EXCEPT !.project = project_id]
                                /\ UNCHANGED slides
                           ELSE \E rows \in
                                       { [ i \in 1..Len(slides_content[2]) |->
                                             slide_row(ids.slide + i, project_id, i,
                                                       slides_content[2][i], req.platform) ] } :
                                    /\ slides' = slides \cup Range(rows)
                                    /\ ids' = [slide |-> ids.slide + Len(rows),
                                               project |-> project_id]
                                    /\ response' =
                                           json_response(200, TRUE, Some(project_id),
                                               [ i \in 1..Len(rows) |-> slide_data(rows[i]) ],
                                               "")
            /\ UNCHANGED << rng, draws, selectCall, selected, promptCall, templatesUsed, thread, handler, call, palettes, paletteCall, imageRequest, media, previews >>

NextCarousel == GenerateSaystoryCarousel

InitCarousel == Init /\ rng = 0

SpecCarousel == InitCarousel /\ [][NextCarousel]_vars


(***************************************************************************)
(* Content previews: generate_content_previews stores three variants of a  *)
(* session, select_preview_and_create_project makes a project of one.      *)
(***************************************************************************)
\* json.dumps of a slide made by create_default_slides, as json.loads reads
\* it back.
json_of_slide(slide) ==
    json_dict(<< "title", "description", "image_prompt", "background_color",
                 "font_color" >>,
              << json_scalar(slide.title), json_scalar(slide.description),
                 json_scalar(slide.image_prompt), json_scalar(slide.background_color),
                 json_scalar(slide.font_color) >>)

\* generate_variant_content(topic, slide_count, platform, style, tone) when
\* the text API call ends as `api`; the slides are given as json.dumps and
\* json.loads carry them.
generate_variant_content(topic, slide_count, platform, style, api) ==
    LET dumped(default_slides) ==
            [ i \in 1..Len(default_slides) |-> json_of_slide(default_slides[i]) ]
        defaults == dumped(create_default_slides(topic, slide_count, platform, style))
    IN  IF api_value(api) = None THEN defaults
        ELSE IF api_value(api)[1].type = "list"
        THEN list_head(api_value(api)[1].items, slide_count)
        ELSE defaults

\* variants of generate_content_previews
variant_names == << "Professional", "Creative", "Bold" >>

\* str(uuid.uuid4()): an id no session has yet.
new_session_id ==
    "session-" \o str(Cardinality({ preview.session_id : preview \in previews }) + 1)

\* The response of generate_content_previews.
previews_response(status, success, error, session_id, preview_list) ==
    [session_id |-> session_id, previews |-> preview_list, status |-> status,
     success |-> success, error |-> error]

GenerateContentPreviews ==
    \E req \in PreviewRequests :
        LET topic == strip(req.topic)
            slide_count == IF req.slide_count = None THEN 5 ELSE req.slide_count[1]
        IN  /\ request' = Some(req)
            /\ IF req.method # "POST"
               THEN /\ response' = previews_response(405, FALSE, "Method not allowed",
                                                     None, << >>)
                    /\ textApi' = None
                    /\ UNCHANGED previews
               ELSE IF topic = ""
               THEN /\ response' = previews_response(400, FALSE, "Topic is required",
                                                     None, << >>)
                    /\ textApi' = None
                    /\ UNCHANGED previews
               ELSE \E apis \in [ 1..Len(variant_names) -> VariantApiOutcomes ] :
                    /\ Cardinality({ preview.session_id : preview \in previews })
                           < MaxSessions
                    /\ textApi' = Some(apis)
                    /\ \E rows \in
                           { [ number \in 1..Len(variant_names) |->
                                 [style |-> req.style,
                                  topic |-> topic,
                                  platform |-> req.platform,
                                  slide_count |-> slide_count,
                                  session_id |-> new_session_id,
                                  variant_number |-> number,
                                  variant_name |-> variant_names[number],
                                  slides_json |->
                                      generate_variant_content(
                                          topic, slide_count, req.platform,
                                          req.style, apis[number]),
                                  is_selected |-> FALSE] ] } :
                           /\ previews' = previews \cup Range(rows)
                           /\ response' =
                                  previews_response(
                                      200, TRUE, "", Some(new_session_id),
                                      [ number \in 1..Len(rows) |->
                                          [variant_number |-> number,
                                           slides |-> rows[number].slides_json,
                                           variant_name |-> variant_names[number]] ])
            /\ UNCHANGED << rng, draws, selectCall, selected, promptCall, templatesUsed, thread, handler, call, palettes, paletteCall, imageRequest, media, projects, slides, ids >>

\* content.get(key, default) of a slide object whose values are texts.
get_text(content, key, default) ==
    IF has_key(content, key) THEN text_of(content, key) ELSE default

\* The Slide row select_preview_and_create_project makes of an entry of
\* slides_json.
preview_slide_row(id, project_id, slide_number, content, total_slides, platform) ==
    [font_color |-> get_text(content, "font_color", "#FFFFFF"),
     title |-> get_text(content, "title", "Slide " \o str(slide_number)),
     description |-> get_text(content, "description", ""),
     slide_number |-> slide_number,
     image_prompt |-> get_text(content, "image_prompt", ""),
     background_color |-> get_text(content, "background_color", "#405DE6"),
     project |-> project_id,
     id |-> id,
     layout |-> map_layout(get_text(content, "layout", "hero_split"), slide_number,
                           total_slides),
     saystorys_width |-> get_platform_dimensions(platform)[1],
     saystorys_height |-> get_platform_dimensions(platform)[2],
     generated_image |-> None]

\* The entries of slides_data in the response of the view.
selected_slide_data(row) ==
    [font_color |-> row.font_color,
     title |-> row.title,
     description |-> row.description,
     slide_number |-> row.slide_number,
     background_color |-> row.background_color,
     id |-> row.id,
     layout |-> row.layout]

\* The number of leading entries of slides_content that are dicts: the loop
\* over the slides raises AttributeError at the first that is none.
leading_dicts(slides_content) ==
    Cardinality({ n \in 1..Len(slides_content) :
                      \A i \in 1..n : slides_content[i].type = "dict" })

\* The previews left with none deleted but the row saved.
previews_after_save(rows, preview) ==
    (rows \ { preview }) \cup { [preview EXCEPT !.is_selected = TRUE] }

\* The previews after preview.save() and
\* ContentPreview.objects.filter(session_id=session_id).exclude(id=preview.id).delete()
previews_after_cleanup(rows, preview) ==
    { other \in rows : other.session_id # preview.session_id }
    \cup { [preview EXCEPT !.is_selected = TRUE] }

SelectPreviewAndCreateProject ==
    \E req \in SelectRequests :
        LET variant_number ==
                IF req.variant_number = None THEN 1 ELSE req.variant_number[1]
            found == { preview \in previews :
                           /\ preview.session_id = req.session_id[1]
                           /\ preview.variant_number = variant_number }
            project_id == ids.project + 1
        IN  /\ request' = Some(req)
            /\ textApi' = None
            /\ IF req.method # "POST"
               THEN /\ response' = json_response(405, FALSE, None, << >>, "Method not allowed")
                    /\ UNCHANGED << projects, slides, previews, ids >>
               ELSE IF ~ truthy(req.session_id)
               THEN /\ response' = json_response(400, FALSE, None, << >>,
                                                 "Session ID is required")
                    /\ UNCHANGED << projects, slides, previews, ids >>
               ELSE IF found = {}
               THEN /\ response' = json_response(404, FALSE, None, << >>, "Preview not found")
                    /\ UNCHANGED << projects, slides, previews, ids >>
               ELSE \E preview \in found :
                    \E made \in { leading_dicts(preview.slides_json) } :
                    \E rows \in
                        { [ i \in 1..made |->
                              preview_slide_row(ids.slide + i, project_id, i,
                                                preview.slides_json[i],
                                                Len(preview.slides_json),
                                                preview.platform) ] } :
                        /\ ids.project < MaxProjects
                        /\ projects' = projects \cup
                               { [style |-> preview.style, topic |-> preview.topic,
                                  platform |-> preview.platform,
                                  slide_count |-> preview.slide_count,
                                  id |-> project_id] }
                        /\ slides' = slides \cup Range(rows)
                        /\ ids' = [slide |-> ids.slide + made, project |-> project_id]
                        /\ IF made < Len(preview.slides_json)
                           THEN /\ previews' = previews_after_save(previews, preview)
                                /\ response' =
                                       json_response(500, FALSE, None, << >>,
                                                     "Failed to create project")
                           ELSE /\ previews' = previews_after_cleanup(previews, preview)
                                /\ response' =
                                       json_response(
                                           200, TRUE, Some(project_id),
                                           [ i \in 1..made |-> selected_slide_data(rows[i]) ],
                                           "")
            /\ UNCHANGED << rng, draws, selectCall, selected, promptCall, templatesUsed, thread, handler, call, palettes, paletteCall, imageRequest, media >>

NextPreview ==
    \/ GenerateContentPreviews
    \/ SelectPreviewAndCreateProject

SpecPreview == InitCarousel /\ [][NextPreview]_vars


(***************************************************************************)
(* The editor: add_slide and delete_slide, one request at a time, on the   *)
(* projects generate_saystory_carousel has made.                           *)
(***************************************************************************)
\* The project row of id `id` with `count` slides.
editor_project(id, count) ==
    [style |-> "modern", topic |-> "Daily Yoga", platform |-> "instagram",
     slide_count |-> count, id |-> id]

RECURSIVE slides_before(_, _)
\* The number of slides of the projects before project `id`.
slides_before(counts, id) ==
    IF id = 1 THEN 0 ELSE slides_before(counts, id - 1) + counts[id - 1]

\* The Slide rows of projects made one after the other, project `id` with
\* counts[id] slides: the rows generate_saystory_carousel stores when the
\* text API returns an empty list.
editor_slides(counts) ==
    { slide_row(slides_before(counts, id) + number, id, number,
                create_fallback_slide("Daily Yoga", number, "instagram", "modern"),
                "instagram") :
          id \in DOMAIN counts, number \in 1..MaxEditorSlides } \cap
    { row \in
          { slide_row(slides_before(counts, id) + number, id, number,
                      create_fallback_slide("Daily Yoga", number, "instagram", "modern"),
                      "instagram") :
                id \in DOMAIN counts, number \in 1..MaxEditorSlides } :
          row.slide_number <= counts[row.project] }

\* The database after NumEditorProjects projects were made.
InitEditorDatabase ==
    \E counts \in [ 1..NumEditorProjects -> 0..MaxEditorSlides ] :
        /\ projects = { editor_project(id, counts[id]) : id \in DOMAIN counts }
        /\ slides = editor_slides(counts)
        /\ ids = [slide |-> slides_before(counts, NumEditorProjects + 1),
                  project |-> NumEditorProjects]

InitSlides ==
    /\ rng = 0
    /\ draws = 0
    /\ selectCall = None
    /\ selected = {}
    /\ promptCall = None
    /\ templatesUsed = {}
    /\ thread = [ t \in Threads |-> idle ]
    /\ call = no_call
    /\ palettes = TOPIC_COLOR_PALETTES
    /\ paletteCall = None
    /\ imageRequest = None
    /\ media = {}
    /\ previews = {}
    /\ handler = [ h \in Handlers |-> idle_handler ]
    /\ request = None
    /\ textApi = None
    /\ response = None
    /\ InitEditorDatabase

\* The response of a view of the editor; `data` holds what the view adds.
editor_response(status, success, error, data) ==
    [status |-> status, success |-> success, error |-> error, data |-> data]

\* Slide.objects.filter(project=project).order_by('-slide_number').first(),
\* then (last_slide.slide_number + 1) if last_slide else 1
next_slide_number(rows, project_id) ==
    IF \A row \in rows : row.project # project_id THEN 1
    ELSE (CHOOSE last \in { row.slide_number : row \in { r \in rows : r.project = project_id } } :
              \A row \in rows : row.project = project_id => row.slide_number <= last) + 1

\* The Slide row add_slide creates; layout is the model's default.
new_slide_row(id, project_id, slide_number, platform) ==
    [font_color |-> "#000000",
     title |-> "New Slide " \o str(slide_number),
     description |-> "Add your content here",
     slide_number |-> slide_number,
     image_prompt |-> "",
     background_color |-> "#FFFFFF",
     project |-> project_id,
     id |-> id,
     layout |-> "full-background",
     saystorys_width |-> get_platform_dimensions(platform)[1],
     saystorys_height |-> get_platform_dimensions(platform)[2],
     generated_image |-> None]

AddSlide ==
    \E req \in AddSlideRequests :
        /\ request' = Some(req)
        /\ IF req.method # "POST"
           THEN /\ response' = editor_response(405, FALSE, "Method not allowed", None)
                /\ UNCHANGED << slides, ids >>
           ELSE IF req.project_id = None \/ req.project_id = Some(0)
           THEN /\ response' = editor_response(400, FALSE, "Project ID is required", None)
                /\ UNCHANGED << slides, ids >>
           ELSE IF \A project \in projects : project.id # req.project_id[1]
           THEN /\ response' = editor_response(404, FALSE, "Project not found", None)
                /\ UNCHANGED << slides, ids >>
           ELSE \E project \in { row \in projects : row.id = req.project_id[1] } :
                \E slide \in { new_slide_row(ids.slide + 1, project.id,
                                             next_slide_number(slides, project.id),
                                             project.platform) } :
                    /\ ids.slide < MaxSlideId
                    /\ slides' = slides \cup { slide }
                    /\ ids' = [ids EXCEPT !.slide = @ + 1]
                    /\ response' = editor_response(200, TRUE, "", Some(slide))
        /\ UNCHANGED << rng, draws, selectCall, selected, promptCall, templatesUsed, thread, handler, call, palettes, paletteCall, imageRequest, media, projects, previews, textApi >>

\* A row after a delete that renumbers nothing.
slide_kept(row, project_id, slide_number) == row

\* A row after the loop over the slides of the project with a number greater
\* than the deleted one: s.slide_number -= 1; s.save()
slide_renumbered(row, project_id, slide_number) ==
    IF row.project = project_id /\ row.slide_number > slide_number
    THEN [row EXCEPT !.slide_number = @ - 1]
    ELSE row

DeleteSlide ==
    \E req \in DeleteSlideRequests :
        /\ request' = Some(req)
        /\ IF req.method # "POST"
           THEN /\ response' = editor_response(405, FALSE, "Method not allowed", None)
                /\ UNCHANGED slides
           ELSE IF req.slide_id = None \/ req.slide_id = Some(0)
           THEN /\ response' = editor_response(400, FALSE, "Slide ID is required", None)
                /\ UNCHANGED slides
           ELSE IF \A row \in slides : row.id # req.slide_id[1]
           THEN /\ response' = editor_response(404, FALSE, "Slide not found", None)
                /\ UNCHANGED slides
           ELSE \E slide \in { row \in slides : row.id = req.slide_id[1] } :
                    /\ slides' = { slide_renumbered(row, slide.project, slide.slide_number) :
                                       row \in slides \ { slide } }
                    /\ response' = editor_response(200, TRUE, "",
                                                   Some(slide.slide_number))
        /\ UNCHANGED << rng, draws, selectCall, selected, promptCall, templatesUsed, thread, handler, call, palettes, paletteCall, imageRequest, media, projects, previews, ids, textApi >>

NextSlides == AddSlide \/ DeleteSlide

SpecSlides == InitSlides /\ [][NextSlides]_vars


(***************************************************************************)
(* The views of the editor that take a slide_id, each answering one        *)
(* request on the database.                                                *)
(***************************************************************************)
\* The project of a slide.
project_of(slide) == CHOOSE project \in projects : project.id = slide.project

\* The rows after slide.save()
saved_slide(rows, slide, changed) == (rows \ { slide }) \cup { changed }

\* A view answers without calling an API and without writing.
refused(status, error) ==
    /\ response' = editor_response(status, FALSE, error, None)
    /\ UNCHANGED << rng, palettes, imageRequest, media, slides, textApi >>

\* The text API was called and the view answers 500, nothing written.
failed_after_text_api(api, error) ==
    /\ textApi' = Some(api)
    /\ response' = editor_response(500, FALSE, error, None)
    /\ UNCHANGED << rng, palettes, imageRequest, media, slides >>

\* The call of generate_saystory_image of generate_slide_image and of
\* generate_and_apply_image for a slide, then slide.save() when a file name
\* came back; `kept` is the text stored as image_prompt.
image_applied(slide, prompt, kept) ==
    \E outcome \in ImageApiOutcomes, uuid \in Uuids :
        \E r \in { generate_saystory_image(
                       rng, palettes, prompt, project_of(slide).platform,
                       project_of(slide).style, slide.id, slide.slide_number,
                       Cardinality({ row \in slides : row.project = slide.project }),
                       Some(slide.project), project_of(slide).topic, None, None, None,
                       outcome, uuid) } :
            /\ rng' = r.state
            /\ palettes' = r.palettes
            /\ imageRequest' =
                   Some([styling_context |-> r.styling_context,
                         outcome |-> outcome,
                         sent |-> r.sent])
            /\ media' = media \cup r.saved
            /\ IF r.filename # None
               THEN /\ slides' = saved_slide(slides, slide,
                                     [slide EXCEPT !.image_prompt = kept,
                                                   !.generated_image = r.filename])
                    /\ response' = editor_response(200, TRUE, "", r.filename)
               ELSE /\ UNCHANGED slides
                    /\ response' = editor_response(500, FALSE, "Failed to generate image",
                                                   None)
            /\ UNCHANGED textApi

GenerateSlideImage ==
    /\ response = None
    /\ \E req \in GenerateSlideImageRequests :
           /\ request' = Some(req)
           /\ IF req.method # "POST" THEN refused(405, "Method not allowed")
              ELSE IF req.slide_id = None \/ req.slide_id = Some(0)
              THEN refused(400, "Slide ID is required")
              ELSE IF strip(req.prompt) = ""
              THEN refused(400, "Image prompt is required")
              ELSE IF \A row \in slides : row.id # req.slide_id[1]
              THEN refused(404, "Slide not found")
              ELSE \E slide \in { row \in slides : row.id = req.slide_id[1] } :
                       image_applied(slide, strip(req.prompt), strip(req.prompt))
    /\ UNCHANGED << draws, selectCall, selected, promptCall, templatesUsed, thread, handler, call, paletteCall, projects, previews, ids >>

GenerateAndApplyImage ==
    /\ response = None
    /\ \E req \in GenerateAndApplyImageRequests :
           /\ request' = Some(req)
           /\ IF req.method # "POST" THEN refused(405, "Method not allowed")
              ELSE IF req.slide_id = None \/ req.slide_id = Some(0)
              THEN refused(400, "Slide ID is required")
              ELSE IF strip(req.description) = ""
              THEN refused(400, "Description is required")
              ELSE IF \A row \in slides : row.id # req.slide_id[1]
              THEN refused(404, "Slide not found")
              ELSE \E slide \in { row \in slides : row.id = req.slide_id[1] } :
                       image_applied(
                           slide,
                           "saystory-style minimal background for: "
                               \o strip(req.description)
                               \o ". Make it clean, leave a clear center area for text, flat/vector style, subtle colors.",
                           strip(req.description))
    /\ UNCHANGED << draws, selectCall, selected, promptCall, templatesUsed, thread, handler, call, paletteCall, projects, previews, ids >>

\* new_data.get(key, default) passed through validate_hex_color
get_color(new_data, key, default) ==
    validate_hex_color(Some(get_text(new_data, key, default)))

RegenerateSlideContent ==
    /\ response = None
    /\ \E req \in RegenerateSlideContentRequests :
           /\ request' = Some(req)
           /\ IF req.method # "POST" THEN refused(405, "Method not allowed")
              ELSE IF req.slide_id = None \/ req.slide_id = Some(0)
              THEN refused(400, "Slide ID is required")
              ELSE IF \A row \in slides : row.id # req.slide_id[1]
              THEN refused(500, "Slide matching query does not exist.")
              ELSE \E slide \in { row \in slides : row.id = req.slide_id[1] },
                      api \in RegenerateApiOutcomes :
                       IF raised(api) THEN failed_after_text_api(api, api[2])
                       ELSE IF api[2] = None
                       THEN failed_after_text_api(api, "AttributeError")
                       ELSE IF raised(api[2][1])
                       THEN failed_after_text_api(api, api[2][1][2])
                       ELSE IF api_value(api)[1].type # "dict"
                       THEN failed_after_text_api(api, "AttributeError")
                       ELSE \E changed \in
                                { [slide EXCEPT
                                      !.font_color =
                                          get_color(api_value(api)[1], "font_color",
                                                    slide.font_color),
                                      !.title =
                                          get_text(api_value(api)[1], "title", slide.title),
                                      !.description =
                                          get_text(api_value(api)[1], "description",
                                                   slide.description),
                                      !.image_prompt =
                                          get_text(api_value(api)[1], "image_prompt",
                                                   slide.image_prompt),
                                      !.background_color =
                                          get_color(api_value(api)[1], "background_color",
                                                    slide.background_color)] } :
                                /\ textApi' = Some(api)
                                /\ slides' = saved_slide(slides, slide, changed)
                                /\ response' = editor_response(200, TRUE, "", Some(changed))
                                /\ UNCHANGED << rng, palettes, imageRequest, media >>
    /\ UNCHANGED << draws, selectCall, selected, promptCall, templatesUsed, thread, handler, call, paletteCall, projects, previews, ids >>

UpdateSlide ==
    /\ response = None
    /\ \E req \in UpdateSlideRequests :
           /\ request' = Some(req)
           /\ IF req.method # "POST" THEN refused(405, "Method not allowed")
              ELSE IF req.slide_id = None \/ req.slide_id = Some(0)
              THEN refused(400, "Slide ID is required")
              ELSE IF \A row \in slides : row.id # req.slide_id[1]
              THEN refused(404, "Slide not found")
              ELSE \E slide \in { row \in slides : row.id = req.slide_id[1] } :
                   \E changed \in
                       { [slide EXCEPT
                             !.font_color =
                                 IF has_key(req.slide_data, "font_color")
                                 THEN get_color(req.slide_data, "font_color", "")
                                 ELSE slide.font_color,
                             !.title = get_text(req.slide_data, "title", slide.title),
                             !.description =
                                 get_text(req.slide_data, "description", slide.description),
                             !.image_prompt =
                                 get_text(req.slide_data, "image_prompt",
                                          slide.image_prompt),
                             !.background_color =
                                 IF has_key(req.slide_data, "background_color")
                                 THEN get_color(req.slide_data, "background_color", "")
                                 ELSE slide.background_color] } :
                       /\ slides' = saved_slide(slides, slide, changed)
                       /\ response' = editor_response(200, TRUE, "", Some(changed))
                       /\ UNCHANGED << rng, palettes, imageRequest, media, textApi >>
    /\ UNCHANGED << draws, selectCall, selected, promptCall, templatesUsed, thread, handler, call, paletteCall, projects, previews, ids >>

AdaptSlideContent ==
    /\ response = None
    /\ \E req \in AdaptSlideContentRequests :
           /\ request' = Some(req)
           /\ IF req.method # "POST" THEN refused(405, "Method not allowed")
              ELSE IF req.slide_id = None \/ req.slide_id = Some(0)
                      \/ ~ truthy(req.layout_style)
              THEN refused(400, "Missing slide_id or layout_style")
              ELSE IF \A row \in slides : row.id # req.slide_id[1]
              THEN refused(404, "Slide not found")
              ELSE \E slide \in { row \in slides : row.id = req.slide_id[1] },
                      api \in AdaptApiOutcomes :
                       IF raised(api) THEN failed_after_text_api(api, api[2])
                       ELSE IF api[2] = None
                       THEN failed_after_text_api(api, "TypeError")
                       ELSE IF raised(api[2][1])
                       THEN failed_after_text_api(api, api[2][1][2])
                       ELSE IF api_value(api)[1].type # "dict"
                       THEN failed_after_text_api(api, "AttributeError")
                       ELSE \E changed \in
                                { [slide EXCEPT
                                      !.title =
                                          get_text(api_value(api)[1], "title", slide.title),
                                      !.description =
                                          get_text(api_value(api)[1], "description",
                                                   slide.description),
                                      !.layout =
                                          IF get_text(api_value(api)[1],
                                                      "structural_layout", "") # ""
                                          THEN map_layout(
                                                   get_text(api_value(api)[1],
                                                            "structural_layout", ""),
                                                   slide.slide_number, 0)
                                          ELSE slide.layout] } :
                                /\ textApi' = Some(api)
                                /\ slides' = saved_slide(slides, slide, changed)
                                /\ response' = editor_response(200, TRUE, "", Some(changed))
                                /\ UNCHANGED << rng, palettes, imageRequest, media >>
    /\ UNCHANGED << draws, selectCall, selected, promptCall, templatesUsed, thread, handler, call, paletteCall, projects, previews, ids >>

\* delete_slide, answering the one request.
DeleteSlideOnce == response = None /\ DeleteSlide

NextEditor ==
    \/ GenerateSlideImage
    \/ GenerateAndApplyImage
    \/ RegenerateSlideContent
    \/ UpdateSlide
    \/ DeleteSlideOnce
    \/ AdaptSlideContent

SpecEditor == InitSlides /\ [][NextEditor]_vars

(***************************************************************************)
(* generate_all_images: an image for every slide of a project that has     *)
(* none, one request after the other.                                      *)
(***************************************************************************)
\* Requests to generate_all_images.
GenerateAllImagesRequests ==
    [project_id : { None } \cup { Some(k) : k \in 1..(NumEditorProjects + 1) },
     method : { "POST" }]
    \cup [project_id : { Some(1) }, method : { "GET" }]

\* How the image API answers a call of the loop: an image by url, no image,
\* an exception.
AllImagesApiOutcomes == { "url", "neither", "raises" }

RECURSIVE order_by_slide_number(_)
\* Slide.objects.filter(...).order_by('slide_number') as a list.
order_by_slide_number(rows) ==
    IF rows = {} THEN << >>
    ELSE << CHOOSE first \in rows :
                \A other \in rows :
                    \/ first.slide_number < other.slide_number
                    \/ first.slide_number = other.slide_number /\ first.id <= other.id >>
         \o order_by_slide_number(
                rows \ { CHOOSE first \in rows :
                             \A other \in rows :
                                 \/ first.slide_number < other.slide_number
                                 \/ first.slide_number = other.slide_number
                                    /\ first.id <= other.id })

\* after_image with a failure left out of the count.
after_image_failure_dropped(acc, slide, outcome, r) ==
    [state |-> r.state,
     palettes |-> r.palettes,
     saved |-> acc.saved \cup r.saved,
     rows |-> IF r.filename # None
              THEN saved_slide(acc.rows, slide,
                               [slide EXCEPT !.generated_image = r.filename])
              ELSE acc.rows,
     requests |-> Append(acc.requests,
                         [styling_context |-> r.styling_context,
                          slide_id |-> slide.id,
                          outcome |-> outcome,
                          sent |-> r.sent]),
     generated |-> IF r.filename # None THEN acc.generated + 1 ELSE acc.generated,
     failed |-> acc.failed]

\* The loop's state after generate_saystory_image returned `r` for `slide`.
after_image(acc, slide, outcome, r) ==
    [state |-> r.state,
     palettes |-> r.palettes,
     saved |-> acc.saved \cup r.saved,
     rows |-> IF r.filename # None
              THEN saved_slide(acc.rows, slide,
                               [slide EXCEPT !.generated_image = r.filename])
              ELSE acc.rows,
     requests |-> Append(acc.requests,
                         [styling_context |-> r.styling_context,
                          slide_id |-> slide.id,
                          outcome |-> outcome,
                          sent |-> r.sent]),
     generated |-> IF r.filename # None THEN acc.generated + 1 ELSE acc.generated,
     failed |-> IF r.filename # None THEN acc.failed ELSE acc.failed + 1]

RECURSIVE images_generated(_, _, _, _, _, _)
\* The loop of generate_all_images over the slides `todo` of `project`, of
\* `total` slides; choices[id] is how the image API answers for slide id,
\* `uuid` the uuid4 of the file names, which differ by the slide id.
images_generated(acc, todo, project, total, choices, uuid) ==
    IF todo = << >> THEN acc
    ELSE IF Head(todo).generated_image # None
    THEN images_generated(acc, Tail(todo), project, total, choices, uuid)
    ELSE CHOOSE result \in
             { images_generated(next, Tail(todo), project, total, choices, uuid) :
                   next \in
                       { after_image(acc, Head(todo), choices[Head(todo).id], r) :
                             r \in { generate_saystory_image(
                                         acc.state, acc.palettes, Head(todo).image_prompt,
                                         project.platform, project.style, Head(todo).id,
                                         Head(todo).slide_number, total, Some(project.id),
                                         project.topic, None, Some(Head(todo).title),
                                         Some(Head(todo).description),
                                         choices[Head(todo).id], uuid) } } } : TRUE

\* The response of generate_all_images after its loop.
all_images_response(acc, total) ==
    editor_response(200, TRUE, "",
                    [generated |-> acc.generated, failed |-> acc.failed,
                     total |-> total])

GenerateAllImages ==
    /\ \E req \in GenerateAllImagesRequests :
           /\ request' = Some(req)
           /\ IF req.method # "POST" THEN refused(405, "Method not allowed")
              ELSE IF req.project_id = None
              THEN refused(400, "Project ID is required")
              ELSE IF \A project \in projects : project.id # req.project_id[1]
              THEN refused(404, "Project not found")
              ELSE \E project \in { row \in projects : row.id = req.project_id[1] },
                      choices \in [ { row.id : row \in { s \in slides :
                                          /\ s.project = req.project_id[1]
                                          /\ s.generated_image = None } }
                                    -> AllImagesApiOutcomes ],
                      uuid \in Uuids :
                       \E acc \in
                           { images_generated(
                                 [state |-> rng, palettes |-> palettes,
                                  saved |-> {}, rows |-> slides, requests |-> << >>,
                                  generated |-> 0, failed |-> 0],
                                 order_by_slide_number(
                                     { row \in slides : row.project = project.id }),
                                 project,
                                 Cardinality({ row \in slides : row.project = project.id }),
                                 choices, uuid) } :
                           /\ rng' = acc.state
                           /\ palettes' = acc.palettes
                           /\ imageRequest' = acc.requests
                           /\ media' = media \cup acc.saved
                           /\ slides' = acc.rows
                           /\ response' =
                                  all_images_response(
                                      acc,
                                      Cardinality({ row \in slides :
                                                        row.project = project.id }))
                           /\ UNCHANGED textApi
    /\ UNCHANGED << draws, selectCall, selected, promptCall, templatesUsed, thread, handler, call, paletteCall, projects, previews, ids >>

NextAllImages == GenerateAllImages

\* A stored slide after update_slide gave it a short title, description and
\* image prompt.
edited_slide(row) ==
    [row EXCEPT !.title = "Why yoga", !.description = "Breathe.",
                !.image_prompt = "calm studio"]

\* The database of the editor with one slide in every project but the first,
\* every slide edited.
InitAllImages ==
    /\ rng = 0
    /\ draws = 0
    /\ selectCall = None
    /\ selected = {}
    /\ promptCall = None
    /\ templatesUsed = {}
    /\ thread = [ t \in Threads |-> idle ]
    /\ call = no_call
    /\ palettes = TOPIC_COLOR_PALETTES
    /\ paletteCall = None
    /\ imageRequest = None
    /\ media = {}
    /\ previews = {}
    /\ handler = [ h \in Handlers |-> idle_handler ]
    /\ request = None
    /\ textApi = None
    /\ response = None
    /\ \E counts \in [ 1..NumEditorProjects -> 0..MaxEditorSlides ] :
           /\ \A id \in DOMAIN counts : id = 1 \/ counts[id] = 1
           /\ projects = { editor_project(id, counts[id]) : id \in DOMAIN counts }
           /\ slides = { edited_slide(row) : row \in editor_slides(counts) }
           /\ ids = [slide |-> slides_before(counts, NumEditorProjects + 1),
                     project |-> NumEditorProjects]

SpecAllImages == InitAllImages /\ [][NextAllImages]_vars

(***************************************************************************)
(* add_slide handled by concurrent workers: every query is a transaction   *)
(* of its own, so a handler reads the last slide in one step and creates   *)
(* its slide in another.                                                   *)
(***************************************************************************)
\* Lines 1796 to 1807: the checks of the request, the project, the number
\* after the last slide's.
AddSlideRead(h) ==
    /\ handler[h].pc = "idle"
    /\ \E req \in AddSlideRequests :
           handler' =
               [handler EXCEPT ![h] =
                   IF req.method # "POST"
                   THEN [project_id |-> req.project_id, pc |-> "done",
                         next_slide_number |-> 0, answered |-> 405]
                   ELSE IF req.project_id = None \/ req.project_id = Some(0)
                   THEN [project_id |-> req.project_id, pc |-> "done",
                         next_slide_number |-> 0, answered |-> 400]
                   ELSE IF \A project \in projects : project.id # req.project_id[1]
                   THEN [project_id |-> req.project_id, pc |-> "done",
                         next_slide_number |-> 0, answered |-> 404]
                   ELSE [project_id |-> req.project_id, pc |-> "read",
                         next_slide_number |->
                             next_slide_number(slides, req.project_id[1]),
                         answered |-> 0]]
    /\ UNCHANGED << rng, draws, selectCall, selected, promptCall, templatesUsed, thread, call, palettes, paletteCall, imageRequest, media, projects, slides, previews, ids, request, textApi, response >>

\* Lines 1809 to 1845: Slide.objects.create(...) and the response.
AddSlideCreate(h) ==
    /\ handler[h].pc = "read"
    /\ ids.slide < MaxSlideId
    /\ \E project \in { row \in projects : row.id = handler[h].project_id[1] } :
           slides' = slides \cup
               { new_slide_row(ids.slide + 1, project.id, handler[h].next_slide_number,
                               project.platform) }
    /\ ids' = [ids EXCEPT !.slide = @ + 1]
    /\ handler' = [handler EXCEPT ![h].pc = "done", ![h].answered = 200]
    /\ UNCHANGED << rng, draws, selectCall, selected, promptCall, templatesUsed, thread, call, palettes, paletteCall, imageRequest, media, projects, previews, request, textApi, response >>

NextAddPar == \E h \in Handlers : AddSlideRead(h) \/ AddSlideCreate(h)

SpecAddPar == InitSlides /\ [][NextAddPar]_vars


(***************************************************************************)
(* Properties.                                                             *)
(***************************************************************************)

\* The carousels for which a prompt has been generated.
carousels_used == { e[1] : e \in templatesUsed }

\* C1: for a fixed (project_id, topic, style), every prompt generated, for
\* any slide number and in any order, with prompts of other carousels and
\* other uses of the generator in between, derives the same seed and uses
\* the same design template, and its flow description names that template's
\* flow element.
C1_SameSeedAndTemplatePerCarousel ==
    /\ \A e1 \in templatesUsed, e2 \in templatesUsed :
           e1[1] = e2[1] => e1[2] = e2[2] /\ e1[3] = e2[3] /\ e1[4] = e2[4]
    /\ \A e \in templatesUsed : e[4] = DESIGN_TEMPLATES[e[3]].flow_element
    /\ promptCall # None =>
           LET flow_element == DESIGN_TEMPLATES[promptCall[1].template_key].flow_element
               line == promptCall[1].prompt.flow_desc[3]
           IN  SubSeq(line, 3, 2 + Len(flow_element)) = flow_element

\* A prompt for a later slide of a carousel that already has prompts, made
\* right after a prompt of another carousel, when three carousels are in
\* progress.
C1_Witness ==
    /\ promptCall # None
    /\ promptCall[1].interleaved
    /\ promptCall[1].prompt.slide_number > 1
    /\ Cardinality(carousels_used) >= 3

\* C2: for every integer seed and style hint, select_design_template returns
\* the same key on every call, and the key is in the candidate set of the
\* hint: the preferred templates of the lower-cased hint that exist when it
\* is a known style, every template otherwise.
C2_SelectDeterministicWithinCandidates ==
    /\ \A e1 \in selected, e2 \in selected :
           e1[1] = e2[1] /\ e1[2] = e2[2] => e1[3] = e2[3]
    /\ \A e \in selected :
           LET hint == e[2]
               known == hint # None /\ lower(hint[1]) \in DOMAIN style_preferences
           IN  IF known
               THEN e[3] \in Range(style_preferences[lower(hint[1])])
                               \cap DOMAIN DESIGN_TEMPLATES
               ELSE e[3] \in DOMAIN DESIGN_TEMPLATES

\* A seeded call with a known style is repeated after the generator has been
\* used without a seed in between.
C2_Witness ==
    /\ selectCall # None
    /\ selectCall[1].again
    /\ selectCall[1].seed # None
    /\ selectCall[1].style_hint = Some("Minimal")
    /\ draws > 0

\* C3: when select_design_template calls with different seeds run
\* concurrently, their steps interleaved in any order, each call returns the
\* template it returns when run alone with its seed.
C3_ConcurrentCallReturnsItsOwnTemplate ==
    \A t \in Threads :
        thread[t].pc = "done" =>
            thread[t].ret =
                select_design_template(0, Some(thread[t].seed),
                                       thread[t].style_hint).value

(***************************************************************************)
(* Properties of the functions that use no state.                          *)
(***************************************************************************)
done(fn) == call.status = "done" /\ call.fn = fn

\* The number of entries of the keyword list that occur in the text.
hits(words, text) ==
    Cardinality({ i \in 1..Len(words) : contains(words[i], text) })

\* The keys of `order` whose keyword list has the most hits in the text.
most_hits(order, table, text) ==
    { k \in Range(order) :
          \A other \in Range(order) :
              hits(table[other], text) <= hits(table[k], text) }

\* The key among `keys` that comes first in `order`.
first_of(order, keys) ==
    order[CHOOSE i \in 1..Len(order) :
              /\ order[i] \in keys
              /\ \A j \in 1..(i - 1) : order[j] \notin keys]

no_hit(order, table, text) ==
    \A k \in Range(order) : hits(table[k], text) = 0

\* C4: get_topic_category returns the category with the most keywords
\* occurring in the lower-cased topic; among several with the most, the one
\* that comes first in the order of TOPIC_KEYWORDS.
C4_TopicCategoryMostMatchesFirstWins ==
    done("get_topic_category") =>
        LET text == lower(call.args[1])
        IN  ~ no_hit(TOPIC_CATEGORY_ORDER, TOPIC_KEYWORDS, text) =>
                call.ret = first_of(TOPIC_CATEGORY_ORDER,
                                    most_hits(TOPIC_CATEGORY_ORDER, TOPIC_KEYWORDS, text))

\* A topic for which several categories share the largest count.
C4_Witness ==
    /\ done("get_topic_category")
    /\ LET text == lower(call.args[1])
       IN  /\ ~ no_hit(TOPIC_CATEGORY_ORDER, TOPIC_KEYWORDS, text)
           /\ Cardinality(most_hits(TOPIC_CATEGORY_ORDER, TOPIC_KEYWORDS, text)) >= 2

\* C5: for every topic, the empty one included, get_topic_category returns
\* one category; it is 'default' exactly when no category keyword occurs in
\* the topic; and the palette of the topic is the static palette of the
\* category returned.
C5_DefaultOnlyWithoutMatchAndOwnPalette ==
    /\ done("get_topic_category") =>
           /\ call.ret \in Range(TOPIC_CATEGORY_ORDER) \cup { "default" }
           /\ call.ret = "default" <=>
                  no_hit(TOPIC_CATEGORY_ORDER, TOPIC_KEYWORDS, lower(call.args[1]))
    /\ done("get_topic_color_palette") =>
           LET category == get_topic_category(call.args[1])
           IN  /\ category \in DOMAIN TOPIC_COLOR_PALETTES
               /\ call.ret = TOPIC_COLOR_PALETTES[category]

\* The empty topic is classified, as 'default'.
C5_Witness ==
    /\ done("get_topic_category")
    /\ call.args[1] = ""
    /\ call.ret = "default"


\* C6: on the last slide of a carousel of more than one slide the detected
\* purpose is 'cta', whatever purpose the keywords alone give.
C6_LastSlideIsCta ==
    done("get_slide_visual_context") =>
        (call.args[4] > 1 /\ call.args[3] = call.args[4] =>
             call.ret.detected_purpose = "cta")

\* A last slide whose keywords alone give 'data' or 'timeline'.
C6_Witness ==
    /\ done("get_slide_visual_context")
    /\ call.args[4] > 1
    /\ call.args[3] = call.args[4]
    /\ analyze_slide_purpose(call.args[1], call.args[2]) \in { "data", "timeline" }
    /\ call.ret.detected_purpose = "cta"

\* C7: on slide 1, whatever the number of slides, the final purpose is the
\* one analyze_slide_purpose returns when that is 'data' or 'timeline', and
\* 'concept' in every other case.
C7_FirstSlideConceptDataOrTimeline ==
    done("get_slide_visual_context") =>
        (call.args[3] = 1 =>
             LET raw == analyze_slide_purpose(call.args[1], call.args[2])
             IN  /\ raw \in { "data", "timeline" } => call.ret.detected_purpose = raw
                 /\ raw \notin { "data", "timeline" } =>
                        call.ret.detected_purpose = "concept"
                 /\ call.ret.detected_purpose \in { "concept", "data", "timeline" })

\* The only slide of a carousel, with keywords that give 'data': it stays.
C7_Witness ==
    /\ done("get_slide_visual_context")
    /\ call.args[3] = 1
    /\ call.args[4] = 1
    /\ analyze_slide_purpose(call.args[1], call.args[2]) = "data"
    /\ call.ret.detected_purpose = "data"

\* C8: analyze_slide_purpose returns the purpose with the most keywords
\* occurring in the lower-cased "title description"; among several with the
\* most, the one that comes first in the order of KEYWORD_TO_PURPOSE; and
\* 'concept' when no keyword occurs.
C8_PurposeMostMatchesFirstWins ==
    done("analyze_slide_purpose") =>
        LET text == lower(call.args[1] \o " " \o call.args[2])
        IN  call.ret =
                IF no_hit(PURPOSE_ORDER, KEYWORD_TO_PURPOSE, text) THEN "concept"
                ELSE first_of(PURPOSE_ORDER,
                              most_hits(PURPOSE_ORDER, KEYWORD_TO_PURPOSE, text))

\* A title and a description that both hold keywords, for which several
\* purposes share the largest count.
C8_Witness ==
    /\ done("analyze_slide_purpose")
    /\ LET text == lower(call.args[1] \o " " \o call.args[2])
       IN  /\ ~ no_hit(PURPOSE_ORDER, KEYWORD_TO_PURPOSE, lower(call.args[1]))
           /\ ~ no_hit(PURPOSE_ORDER, KEYWORD_TO_PURPOSE, lower(call.args[2]))
           /\ Cardinality(most_hits(PURPOSE_ORDER, KEYWORD_TO_PURPOSE, text)) >= 2

\* C9: for every title, description and max_keywords >= 0,
\* extract_slide_keywords returns at most max_keywords entries, without
\* duplicates, none a stop word, each a lower-cased alphabetic token of three
\* letters or more of the text, in order of first occurrence.
C9_KeywordsBoundedDistinctOrdered ==
    done("extract_slide_keywords") =>
        LET words == findall_words(lower(call.args[1] \o " " \o call.args[2]))
            first(w) == CHOOSE i \in 1..Len(words) :
                            words[i] = w /\ \A j \in 1..(i - 1) : words[j] # w
            ret == call.ret
        IN  /\ Len(ret) <= call.args[3]
            /\ \A i \in 1..Len(ret), j \in 1..Len(ret) : i # j => ret[i] # ret[j]
            /\ \A i \in 1..Len(ret) :
                   /\ ret[i] \notin stop_words
                   /\ ret[i] \in Range(words)
                   /\ Len(ret[i]) >= 3
                   /\ \A m \in 1..Len(ret[i]) : CharAt(ret[i], m) \in LOWER_CHARS
            /\ \A i \in 1..Len(ret), j \in 1..Len(ret) :
                   i < j => first(ret[i]) < first(ret[j])

\* The line of a flow description that names the position.
position_line(flow_desc) == flow_desc[2]

starts_with(s, prefix) ==
    Len(s) >= Len(prefix) /\ SubSeq(s, 1, Len(prefix)) = prefix

\* C10: get_slide_flow_description gives the OPENING description when
\* slide_number is 1, the CLOSING one when slide_number is total_slides and
\* total_slides > 1, the MIDDLE one otherwise; the only slide of a carousel
\* gets the OPENING description.
C10_FlowPositionExclusive ==
    done("get_slide_flow_description") =>
        LET slide_number == call.args[1]
            total_slides == call.args[2]
            expected ==
                IF slide_number = 1 THEN "OPENING"
                ELSE IF slide_number = total_slides /\ total_slides > 1 THEN "CLOSING"
                ELSE "MIDDLE"
        IN  /\ starts_with(position_line(call.ret),
                           "VISUAL FLOW POSITION: " \o expected \o " SLIDE (")
            /\ starts_with(call.ret[3], "- " \o call.args[3] \o
                   (IF expected = "OPENING" THEN " ORIGINATES" ELSE " ENTERS"))

\* The only slide of a carousel.
C10_Witness ==
    /\ done("get_slide_flow_description")
    /\ call.args[1] = 1
    /\ call.args[2] = 1
    /\ starts_with(position_line(call.ret), "VISUAL FLOW POSITION: OPENING SLIDE (1 of 1)")


\* Exactly six hexadecimal digits.
six_hex_digits(s) == Len(s) = 6 /\ \A i \in 1..6 : is_hex_digit(CharAt(s, i))

\* C11: hex_to_rgb raises for every string that, once the leading # is
\* removed, is not exactly six hexadecimal digits, and returns a triple of
\* components in 0..255 for the others.
C11_HexToRgbRejectsMalformed ==
    done("hex_to_rgb") =>
        IF six_hex_digits(lstrip(call.args[1], "#"))
        THEN /\ ~ raised(call.ret)
             /\ \A i \in 1..3 : call.ret[2][i] \in 0..255
        ELSE raised(call.ret)

\* '#' followed by exactly six lower-case hexadecimal digits.
is_lower_hex_color(s) ==
    /\ Len(s) = 7
    /\ CharAt(s, 1) = "#"
    /\ \A i \in 2..7 : CharAt(s, i) \in DIGIT_CHARS \cup HEX_LETTER_CHARS

\* C12: rgb_to_hex returns '#' and six lower-case hexadecimal digits for
\* every numeric triple, also when a component lies outside 0..255.
C12_RgbToHexAlwaysSixDigits ==
    done("rgb_to_hex") => is_lower_hex_color(call.ret)

\* C13: hex_to_rgb(rgb_to_hex((r, g, b))) = (r, g, b) for all integers
\* r, g, b in 0..255.
C13_RoundTrip ==
    done("hex_to_rgb(rgb_to_hex)") =>
        call.ret = Returns(<< call.args[1][1][1], call.args[1][2][1],
                              call.args[1][3][1] >>)

\* A round trip was made with a one-digit and a two-digit component.
C13_Witness ==
    /\ done("hex_to_rgb(rgb_to_hex)")
    /\ ~ raised(call.ret)
    /\ call.args[1][1][1] \in 1..15
    /\ call.args[1][2][1] = 200


\* A colour constant: '#' and six hexadecimal digits.
is_hex_color(s) ==
    Len(s) = 7 /\ CharAt(s, 1) = "#" /\ six_hex_digits(SubSeq(s, 2, 7))

\* C14: when the conversion of the colour fails, generate_pastel_variant
\* returns '#FFE4EC' and generate_complementary_color '#A29BFE', and
\* get_topic_color_palette with such a brand colour returns the category's
\* palette with that pastel.
C14_FallbackColourOnConversionFailure ==
    /\ done("generate_pastel_variant") =>
           /\ raised(hex_to_rgb(call.args[1])) => call.ret = "#FFE4EC"
           /\ CharAt(call.ret, 1) = "#"
    /\ done("generate_complementary_color") =>
           /\ raised(hex_to_rgb(call.args[1])) => call.ret = "#A29BFE"
           /\ CharAt(call.ret, 1) = "#"
    /\ done("get_topic_color_palette") /\ call.args[2] # << >> =>
           /\ DOMAIN TOPIC_COLOR_PALETTES["default"] \subseteq DOMAIN call.ret
           /\ raised(hex_to_rgb(call.args[2][1])) => call.ret.pastel = "#FFE4EC"

\* A palette was requested with a brand colour that cannot be converted.
C14_Witness ==
    /\ done("get_topic_color_palette")
    /\ call.args[2] # << >>
    /\ raised(hex_to_rgb(call.args[2][1]))
    /\ call.ret.accent = call.args[2][1]

\* C22: for every slide_count >= 1 and every outcome of the text API call
\* (it raises, no content, malformed JSON, too few slides, slides)
\* generate_saystory_slides_content returns exactly slide_count slides, each
\* with title, description, image_prompt, background_color and font_color.
C22_ExactlySlideCountSlides ==
    done("generate_saystory_slides_content") =>
        /\ ~ raised(call.ret)
        /\ Len(call.ret[2]) = call.args[2]
        /\ \A i \in 1..Len(call.ret[2]) :
               { "title", "description", "image_prompt", "background_color",
                 "font_color" } \subseteq DOMAIN call.ret[2][i]

\* C23: when the text API returns a JSON array of well-formed slide objects,
\* the i-th slide returned has the i-th object's title and description
\* stripped, its colours as validate_hex_color gives them and its layout as
\* map_layout gives it; the positions the array does not reach hold the
\* fallback slides.
C23_WellFormedSlidesAreKept ==
    (/\ done("generate_saystory_slides_content")
     /\ api_value(call.args[5]) # None
     /\ api_value(call.args[5])[1].type = "list"
     /\ \A k \in 1..Len(api_value(call.args[5])[1].items) :
            well_formed_slide(api_value(call.args[5])[1].items[k])) =>
        LET kept(entries, returned) ==
                /\ Len(returned) = call.args[2]
                /\ \A i \in 1..Len(returned) :
                       IF i <= Len(entries)
                       THEN /\ returned[i].title = strip(text_of(entries[i], "title"))
                            /\ returned[i].description =
                                   strip(text_of(entries[i], "description"))
                            /\ returned[i].background_color =
                                   validate_hex_color(
                                       Some(text_of(entries[i], "background_color")))
                            /\ returned[i].font_color =
                                   validate_hex_color(
                                       Some(text_of(entries[i], "font_color")))
                            /\ "layout" \in DOMAIN returned[i]
                            /\ returned[i].layout =
                                   map_layout(text_of(entries[i], "layout"), i,
                                              call.args[2])
                       ELSE returned[i] =
                                create_fallback_slide(call.args[1], i, call.args[3],
                                                      call.args[4])
        IN  kept(api_value(call.args[5])[1].items, call.ret[2])

\* C21: every Slide row made of text-generation output has a
\* background_color and a font_color of the form '#RRGGBB' (digits of either
\* case), on the carousel path and on the preview path.
C21_StoredColoursAreHexColours ==
    \A row \in slides :
        is_hex_color(row.background_color) /\ is_hex_color(row.font_color)

\* C30: the layout of every stored Slide is one of Slide.LAYOUT_CHOICES.
C30_StoredLayoutIsAChoice ==
    \A row \in slides : row.layout \in LAYOUT_CHOICES

\* The last request was one to select_preview_and_create_project.
select_request(req) == req # None /\ "session_id" \in DOMAIN req[1]

\* Variant `number` is the one preview left of the session, and is selected.
only_selected(rows, session_id, number) ==
    \E preview \in rows :
        /\ preview.session_id = session_id
        /\ preview.variant_number = number
        /\ preview.is_selected
        /\ \A other \in rows : other.session_id = session_id => other = preview

\* C29: when select_preview_and_create_project has succeeded for a session
\* and a variant, that variant is the only preview left of the session and is
\* selected; it stays so, and every later request for another variant of the
\* session is answered 404 'Preview not found' and stores no project and no
\* slide.
C29_SelectionIsFinal ==
    /\ [](select_request(request) /\ response.status = 200 =>
              only_selected(previews, request[1].session_id[1],
                            IF request[1].variant_number = None THEN 1
                            ELSE request[1].variant_number[1]))
    /\ [][\A session \in 1..MaxSessions, number \in 1..Len(variant_names) :
              only_selected(previews, "session-" \o str(session), number) =>
                  /\ only_selected(previews', "session-" \o str(session), number)
                  /\ (/\ select_request(request')
                      /\ request'[1].method = "POST"
                      /\ request'[1].session_id = Some("session-" \o str(session))
                      /\ request'[1].variant_number \notin { Some(number) }
                             \cup (IF number = 1 THEN { None } ELSE { })) =>
                         /\ response'.status = 404
                         /\ response'.error = "Preview not found"
                         /\ projects' = projects
                         /\ slides' = slides]_vars

\* A variant was selected and its project made, and a request for another
\* variant of the session has been answered 'Preview not found'.
C29_Witness ==
    /\ select_request(request)
    /\ request[1].session_id = Some("session-1")
    /\ request[1].variant_number = Some(3)
    /\ response.status = 404
    /\ only_selected(previews, "session-1", 2)
    /\ projects # {}
    /\ slides # {}

\* The slides of a project.
slides_of(rows, project_id) == { row \in rows : row.project = project_id }

\* C25: with add_slide and delete_slide requests handled one at a time, the
\* slide numbers of every project are exactly 1..m with no gap and no
\* duplicate, a new slide gets the number m + 1, and the slides that stay
\* keep their relative order.
C25_SlideNumbersStayConsecutive ==
    /\ [](\A project \in projects :
              /\ { row.slide_number : row \in slides_of(slides, project.id) }
                     = 1..Cardinality(slides_of(slides, project.id))
              /\ \A a, b \in slides_of(slides, project.id) :
                     a.slide_number = b.slide_number => a = b)
    /\ [][/\ \A new \in slides' :
                 (\A row \in slides : row.id # new.id) =>
                     new.slide_number =
                         Cardinality(slides_of(slides, new.project)) + 1
          /\ \A a, b \in slides, c, d \in slides' :
                 (/\ a.id = c.id /\ b.id = d.id /\ a.project = b.project
                  /\ a.slide_number < b.slide_number) =>
                     c.slide_number < d.slide_number]_vars

\* A slide was added as the third of its project and, after an earlier slide
\* was deleted, is the second.
C25_Witness ==
    /\ response # None
    /\ response.status = 200
    /\ \E row \in slides : row.title = "New Slide 3" /\ row.slide_number = 2

\* C27: two add_slide requests on one project handled concurrently never
\* leave two slides of the project with the same slide_number.
C27_ConcurrentAddsGetDistinctNumbers ==
    \A a, b \in slides :
        (a.project = b.project /\ a.slide_number = b.slide_number) => a = b

\* The slides of a project that have no generated image.
without_image(rows, project_id) ==
    { row \in rows : row.project = project_id /\ row.generated_image = None }

\* The image requests made for a slide.
image_requests_for(requests, slide_id) ==
    { i \in DOMAIN requests : requests[i].slide_id = slide_id }

\* What one answered run of generate_all_images for project_id did.
all_images_run(project_id) ==
    /\ \A row \in slides :
           row.generated_image # None =>
               /\ row \in slides'
               /\ image_requests_for(imageRequest', row.id) = {}
    /\ \A row \in slides :
           (\A i \in image_requests_for(imageRequest', row.id) :
                imageRequest'[i].outcome \notin { "url", "b64_json" }) =>
               row \in slides'
    /\ \A row \in slides' \ slides :
           \E old \in without_image(slides, project_id) :
               /\ row = [old EXCEPT !.generated_image = row.generated_image]
               /\ row.generated_image # None
               /\ row.generated_image[1] \in media'
               /\ \E i \in image_requests_for(imageRequest', row.id) :
                      imageRequest'[i].outcome \in { "url", "b64_json" }
    /\ Cardinality(slides') = Cardinality(slides)
    /\ response'.data.generated + response'.data.failed
           = Cardinality(without_image(slides, project_id))
    /\ response'.data.generated
           = Cardinality(without_image(slides, project_id))
             - Cardinality(without_image(slides', project_id))
    /\ (/\ request = request'
        /\ response # None
        /\ response.status = 200
        /\ response.data.failed = 0) =>
           /\ response'.data.generated = 0
           /\ response'.data.failed = 0
           /\ imageRequest' = << >>
           /\ slides' = slides

\* C28: a run of generate_all_images leaves every slide that has an image as
\* it is and calls no image API for it, sets generated_image only on slides
\* whose generation succeeded, reports generated + failed = the number of
\* slides of the project without an image before the run, and after a run
\* without failures the next run for the project generates nothing.
C28_AllImagesFillsOnlyTheGaps ==
    [][(/\ request' # None
        /\ response' # None
        /\ "project_id" \in DOMAIN request'[1]
        /\ response'.status = 200) =>
           all_images_run(request'[1].project_id[1])]_vars

\* A run was answered for a project whose two slides both had their image:
\* nothing was requested, nothing generated, nothing failed.
C28_Witness ==
    /\ request # None
    /\ response # None
    /\ "project_id" \in DOMAIN request[1]
    /\ response.status = 200
    /\ response.data.total = 2
    /\ response.data.generated = 0
    /\ response.data.failed = 0
    /\ imageRequest = << >>
    /\ without_image(slides, request[1].project_id[1]) = {}

\* The text a request carries under a key, '' when it has no such key.
request_text(req, key) ==
    IF key \notin DOMAIN req THEN "given"
    ELSE IF key = "layout_style"
    THEN (IF req[key] = None THEN "" ELSE req[key][1])
    ELSE strip(req[key])

\* The request just answered is a POST, complete but for naming a slide that
\* the database does not hold.
names_missing_slide ==
    /\ request # None
    /\ response # None
    /\ "slide_id" \in DOMAIN request[1]
    /\ request[1].method = "POST"
    /\ request[1].slide_id \notin { None, Some(0) }
    /\ \A key \in { "prompt", "description", "layout_style" } :
           request_text(request[1], key) # ""
    /\ \A row \in slides : row.id # request[1].slide_id[1]

\* C26: every endpoint that receives the slide_id of a slide that does not
\* exist answers with status 404 and 'Slide not found', has called no
\* external API and has changed no stored record.
C26_MissingSlideIsNotFound ==
    names_missing_slide =>
        /\ response.status = 404
        /\ response.error = "Slide not found"
        /\ textApi = None
        /\ imageRequest = None
        /\ media = {}

\* '#' followed by exactly six upper-case hexadecimal digits.
is_upper_hex_color(s) == matches_hex(s, 6)

\* C24: for every colour given (None, empty, with or without '#', of three
\* digits, any other text) validate_hex_color returns '#' and six upper-case
\* hexadecimal digits, and returns that result unchanged when given it.
C24_ValidateHexColorNormalisesAndIsIdempotent ==
    done("validate_hex_color") =>
        /\ is_upper_hex_color(call.ret)
        /\ validate_hex_color(Some(call.ret)) = call.ret

\* A three-digit colour in lower case, without '#' and with white space
\* around it, was given and came back with its digits doubled.
C24_Witness ==
    /\ done("validate_hex_color")
    /\ call.args[1] = Some(" #abc ")
    /\ call.ret = "#AABBCC"

\* C20: with brand colours the palette returned is the category's palette
\* with accent replaced by the first brand colour, pastel added and
\* secondary added when there is a second brand colour; without brand
\* colours it is the category's palette; the table TOPIC_COLOR_PALETTES is
\* never changed.
C20_BrandColoursChangeOnlyTheCopy ==
    /\ palettes = TOPIC_COLOR_PALETTES
    /\ paletteCall # None =>
           LET c == paletteCall[1]
               original ==
                   dict_get(TOPIC_COLOR_PALETTES, get_topic_category(c.topic),
                            TOPIC_COLOR_PALETTES["default"])
               added == IF Len(c.brand_colors) > 1 THEN { "pastel", "secondary" }
                        ELSE { "pastel" }
           IN  IF c.brand_colors = << >> THEN c.palette = original
               ELSE /\ DOMAIN c.palette = DOMAIN original \cup added
                    /\ c.palette.accent = c.brand_colors[1]
                    /\ is_hex_color(c.palette.pastel)
                    /\ Len(c.brand_colors) > 1 =>
                           c.palette.secondary = c.brand_colors[2]
                    /\ \A k \in DOMAIN original \ { "accent" } :
                           c.palette[k] = original[k]

\* A palette was requested without brand colours after one of the same
\* category was requested with brand colours.
C20_Witness ==
    /\ paletteCall # None
    /\ paletteCall[1].brand_colors = << >>
    /\ paletteCall[1].later
    /\ paletteCall[1].palette.accent =
           TOPIC_COLOR_PALETTES[get_topic_category(paletteCall[1].topic)].accent


\* The Layer 1 instruction of a composed prompt, when it has one.
layer1_composed ==
    /\ done("generate_enhanced_image_prompt")
    /\ call.ret.objects_instruction.layer = 1

\* The entry of a comma-separated list at `index` places after the first,
\* counted round the list.
rotated(list_str, index) ==
    LET entries == split_and_strip(list_str)
    IN  entries[(index % Len(entries)) + 1]

\* C15: in the Layer 1 fallback the suggested objects are the entries of
\* the category's objects list at (slide_number - 1 + i) mod length for
\* i = 0, 1, 2, pairwise different, and the creative accent is the entry of
\* creative_elements at (slide_number - 1) mod length.
C15_Layer1RotatesThroughObjects ==
    layer1_composed =>
        LET palette ==
                dict_get(TOPIC_COLOR_PALETTES, get_topic_category(call.args[1]),
                         TOPIC_COLOR_PALETTES["default"])
            object(i) == rotated(palette.objects, call.args[2] - 1 + i)
            instruction == call.ret.objects_instruction
        IN  /\ instruction.selected_objects_str =
                   object(0) \o ", " \o object(1) \o ", " \o object(2)
            /\ object(0) # object(1) /\ object(0) # object(2) /\ object(1) # object(2)
            /\ instruction.selected_creative =
                   rotated(palette.creative_elements, call.args[2] - 1)

\* A Layer 1 prompt whose three objects go round the end of the list.
C15_Witness ==
    /\ layer1_composed
    /\ LET palette ==
               dict_get(TOPIC_COLOR_PALETTES, get_topic_category(call.args[1]),
                        TOPIC_COLOR_PALETTES["default"])
           length == Len(split_and_strip(palette.objects))
       IN  /\ call.args[2] > 1
           /\ (call.args[2] - 1) % length = length - 1
           /\ call.ret.objects_instruction.selected_objects_str =
                  rotated(palette.objects, length - 1) \o ", "
                      \o rotated(palette.objects, 0) \o ", "
                      \o rotated(palette.objects, 1)

C17_ComposerHasNoSideEffect == [][rng' = rng /\ palettes' = palettes]_vars

\* `text` is in `sent`, character for character: its pieces, whole and in
\* order, are consecutive pieces of `sent`.
contains_text(sent, text) ==
    \E k \in 0..(Len(sent) - Len(text)) :
        SubSeq(sent, k + 1, k + Len(text)) = text

\* C18: whenever generate_saystory_image is called with a topic, the whole
\* string generate_enhanced_image_prompt produced (flow description, colour
\* directives, visual vocabulary, composition constraints) is contained
\* unmodified in the prompt sent to the image API.
C18_ImageApiGetsWholeComposerString ==
    (done("generate_saystory_image") /\ call.args[8] # "") =>
        contains_text(imageRequest[1].sent, imageRequest[1].styling_context)

\* The content of a Slide row, as the slide generators give it.
row_content(row) ==
    [font_color |-> row.font_color,
     title |-> row.title,
     description |-> row.description,
     image_prompt |-> row.image_prompt]

\* The rows are slides 1..Len(contents) with these contents, the font colour
\* included.
stored_as(rows, contents) ==
    /\ Cardinality(rows) = Len(contents)
    /\ \A i \in 1..Len(contents) :
           \E row \in rows :
               /\ row.slide_number = i
               /\ row_content(row) =
                      [font_color |-> contents[i].font_color,
                       title |-> contents[i].title,
                       description |-> contents[i].description,
                       image_prompt |-> contents[i].image_prompt]

\* C19: a generate_saystory_carousel POST with a non-empty topic is answered
\* with success whatever the text API did (raised, returned no JSON, JSON
\* that is no list, an empty list, a list of malformed entries), and a
\* project is stored whose slides are the locally made ones: the default
\* slides, or the fallback slides for 1..slide_count.
C19_TextApiNeverFailsCarousel ==
    (request # None /\ request[1].method = "POST" /\ strip(request[1].topic) # "") =>
        LET req == request[1]
            topic == strip(req.topic)
            slide_count == IF req.slide_count = None THEN 5 ELSE req.slide_count[1]
        IN  /\ response.status = 200
            /\ response.success
            /\ response.project_id # None
            /\ \E project \in projects :
                   /\ project.id = response.project_id[1]
                   /\ project.topic = topic
                   /\ \E rows \in { { row \in slides : row.project = project.id } } :
                          /\ \E contents \in
                                    { create_default_slides(
                                          topic, slide_count, req.platform, req.style),
                                      fill_with_fallback(
                                          << >>, topic, slide_count, req.platform,
                                          req.style) } :
                                 stored_as(rows, contents)
                          /\ { response.slides[i].id : i \in 1..Len(response.slides) }
                                 = { row.id : row \in rows }

\* A carousel was asked for, the text API raised, and the response is a
\* success with the slides of a stored project.
C19_Witness ==
    /\ request # None /\ request[1].method = "POST"
    /\ strip(request[1].topic) = "Daily Yoga"
    /\ textApi # None /\ raised(textApi[1])
    /\ response.status = 200
    /\ Len(response.slides) > 1
    /\ \E row \in slides : row.title = "Unlock Daily Yoga Excellence"

====
